---- MODULE Spec2Model ----
(***************************************************************************)
(* Model of src/language/expressions/generate.py, the generator that turns *)
(* operations.def into evaluate.h, evaluate.inc, operations.h,             *)
(* optimize.inc and parse.inc.                                             *)
(*                                                                         *)
(* A Python str is a TLA+ string and a Python list a sequence.  The input  *)
(* file is modelled after tokenization, as a sequence of declarations;    *)
(* each declaration records the tokens the parser reads for one           *)
(* operation.  sys.stdout is the sequence of the strings written to it.   *)
(* The tokenizer is modelled on the characters of the input, with its own *)
(* specification SpecLex.                                                 *)
(***************************************************************************)
EXTENDS Integers, Sequences, FiniteSets, TLC

VARIABLES
    text,           \* the content of in_file: the declarations of the input
    pos,            \* read position of in_file: declarations consumed so far
    out_file_name,  \* value of the -o option, or NoOption
    pc,             \* position of the main program
    ops,            \* parse_input's dict of operations (its keys, the opnames)
    funcs,          \* global funcs
    opers,          \* global opers
    order,          \* global order
    expression,     \* parse_input's local 'expression', kept between iterations
    stdout,         \* what was written to sys.stdout
    stderr,         \* what was written to sys.stderr (the kind of message)
    exit_status,    \* Running, or the process's exit status
    run,            \* 1 in the first run of the program, 2 in a rerun
    first,          \* stdout, stderr, exit status and order of the first run
    in_file,        \* the characters of in_file that were not read yet
    line,           \* global line: the rest of the current line, or None
    token,          \* global token
    toktype,        \* global toktype
    condition       \* Arg.parse's local 'condition'

\* The variables of the tokenizer.
lexvars == <<in_file, line, token, toktype, condition>>

vars == <<text, pos, out_file_name, pc, ops, funcs, opers, order, expression,
          stdout, stderr, exit_status, run, first, lexvars>>

-----------------------------------------------------------------------------
(* Python values *)

\* A Python str is a TLA+ string; a Python list is a sequence.

\* Python's None where a str is expected; '%s' % None prints "None".
None == "None"

\* An 'idx' of None (an identifier is never empty).
NoIdx == ""

\* A local variable that was never assigned.
Unbound == "<unbound>"

\* exit_status of a process that has not exited.
Running == 0 - 1

\* out_file_name when no -o option was given.
NoOption == "<none>"

\* What an uncaught Python exception leaves on stderr.
Traceback == "Traceback (most recent call last)"

RECURSIVE Join(_, _)
\* sep.join(list)
Join(list, sep) ==
    IF Len(list) = 0 THEN ""
    ELSE IF Len(list) = 1 THEN list[1]
    ELSE list[1] \o sep \o Join(Tail(list), sep)

\* The characters of identifiers and integers in increasing code point order.
Ascii ==
    << ".", "0", "1", "2", "3", "4", "5", "6", "7", "8", "9",
       "A", "B", "C", "D", "E", "F", "G", "H", "I", "J", "K", "L", "M",
       "N", "O", "P", "Q", "R", "S", "T", "U", "V", "W", "X", "Y", "Z",
       "_",
       "a", "b", "c", "d", "e", "f", "g", "h", "i", "j", "k", "l", "m",
       "n", "o", "p", "q", "r", "s", "t", "u", "v", "w", "x", "y", "z" >>

Ord(c) == CHOOSE i \in 1..Len(Ascii) : Ascii[i] = c

Digits == <<"0", "1", "2", "3", "4", "5", "6", "7", "8", "9">>

IsDigit(c) == \E i \in 1..Len(Digits) : Digits[i] = c

DigitValue(c) == (CHOOSE i \in 1..Len(Digits) : Digits[i] = c) - 1

\* s[i - 1], the i-th character of s
Char(s, i) == SubSeq(s, i, i)

RECURSIVE StrLess(_, _)
\* a < b for two str
StrLess(a, b) ==
    IF Len(b) = 0 THEN FALSE
    ELSE IF Len(a) = 0 THEN TRUE
    ELSE IF Head(a) = Head(b) THEN StrLess(Tail(a), Tail(b))
    ELSE Ord(Head(a)) < Ord(Head(b))

RECURSIVE TupleLess(_, _)
\* k1 < k2 for two tuples of str
TupleLess(k1, k2) ==
    IF Len(k2) = 0 THEN FALSE
    ELSE IF Len(k1) = 0 THEN TRUE
    ELSE IF Head(k1) = Head(k2) THEN TupleLess(Tail(k1), Tail(k2))
    ELSE StrLess(Head(k1), Head(k2))

SetMin(s) == CHOOSE x \in s : \A y \in s : x <= y

SetMax(s) == CHOOSE x \in s : \A y \in s : x >= y

\* One step of a stable sort: x goes behind every element whose key is not
\* greater than its own.
InsertByKey(s, x) ==
    LET after == {i \in 1..Len(s) : TupleLess(x.key, s[i].key)}
    IN  IF after = {} THEN Append(s, x)
        ELSE SubSeq(s, 1, SetMin(after) - 1) \o <<x>>
             \o SubSeq(s, SetMin(after), Len(s))

RECURSIVE SortPairs(_, _)
SortPairs(done, rest) ==
    IF Len(rest) = 0 THEN done
    ELSE SortPairs(InsertByKey(done, Head(rest)), Tail(rest))

\* sorted(list, key=...), where keyed[i] = [key |-> key(list[i]), item |-> list[i]]
sorted(keyed) ==
    LET s == SortPairs(<<>>, keyed) IN [i \in 1..Len(s) |-> s[i].item]

RECURSIVE ReplaceDots(_)
\* s.replace('.', '_')
ReplaceDots(s) ==
    IF Len(s) = 0 THEN ""
    ELSE (IF Head(s) = "." THEN "_" ELSE Head(s)) \o ReplaceDots(Tail(s))

\* c in s, for a character c
Contains(s, c) == \E i \in 1..Len(s) : Char(s, i) = c

\* s.startswith(p)
StartsWith(s, p) == Len(s) >= Len(p) /\ SubSeq(s, 1, Len(p)) = p

\* s.endswith(p)
EndsWith(s, p) ==
    Len(s) >= Len(p) /\ SubSeq(s, Len(s) - Len(p) + 1, Len(s)) = p

RECURSIVE DigitsToInt(_, _)
\* int(suffix)
DigitsToInt(acc, d) ==
    IF Len(d) = 0 THEN acc
    ELSE DigitsToInt(10 * acc + DigitValue(Head(d)), Tail(d))

RECURSIVE IntToStr(_)
\* '%s' % n for an int n >= 0
IntToStr(n) ==
    IF n < 10 THEN Digits[n + 1]
    ELSE IntToStr(n \div 10) \o Digits[(n % 10) + 1]

\* re.match(r'(.*)\.(\d+)$', name): the greedy (.*) ends at the last period,
\* which matches when only digits, and at least one, follow it.
MinValidMatch(name) ==
    LET dots == {i \in 1..Len(name) : Char(name, i) = "."}
        p == SetMax(dots)
        suffix == SubSeq(name, p + 1, Len(name))
    IN  IF dots = {} THEN [matched |-> FALSE, prefix |-> name, min_valid |-> 0]
        ELSE IF Len(suffix) > 0
                /\ \A i \in 1..Len(suffix) : IsDigit(Char(suffix, i))
        THEN [matched |-> TRUE, prefix |-> SubSeq(name, 1, p - 1),
              min_valid |-> DigitsToInt(0, suffix)]
        ELSE [matched |-> FALSE, prefix |-> name, min_valid |-> 0]

-----------------------------------------------------------------------------
(* Types *)

\* Type.__init__: a c_type that does not end in '*' gets a trailing space.
\* An attribute the constructor does not set is ""; HasAttr tells
\* whether reading it raises AttributeError.
Type(name, role, human_name, c_type) ==
    [name |-> name, role |-> role, human_name |-> human_name,
     c_type |-> IF c_type = "" THEN ""
                ELSE IF EndsWith(c_type, "*") THEN c_type
                ELSE c_type \o " ",
     atom |-> "", mangle |-> "", stack |-> "", missing_value |-> "",
     auxonly_value |-> ""]

new_atom(name) == Type(name, "atom", name, "")

new_any(name, c_type, atom, mangle, human_name, stack, missing_value) ==
    [Type(name, "any", human_name, c_type) EXCEPT
        !.atom = atom, !.mangle = mangle, !.stack = stack,
        !.missing_value = missing_value]

new_leaf(name, c_type, atom, mangle, human_name) ==
    [Type(name, "leaf", human_name, c_type) EXCEPT
        !.atom = atom, !.mangle = mangle]

new_auxonly(name, c_type, auxonly_value) ==
    [Type(name, "auxonly", name, c_type) EXCEPT
        !.auxonly_value = auxonly_value]

\* Whether a Type of this role has the attribute.
HasAttr(type_, attr) ==
    CASE attr = "c_type" -> type_.role # "atom"
      [] attr = "atom" -> type_.role \in {"any", "leaf"}
      [] attr = "mangle" -> type_.role \in {"any", "leaf"}
      [] attr = "stack" -> type_.role = "any"
      [] attr = "missing_value" -> type_.role = "any"
      [] attr = "auxonly_value" -> type_.role = "auxonly"
      [] OTHER -> TRUE

\* init_all_types: the values of the 'types' dict, in insertion order.
types ==
    << new_any("number", "double", "number", "n",
               "number", "ns", "SYSMIS"),
       new_any("string", "struct substring", "string", "s",
               "string", "ss", "empty_string"),
       new_any("boolean", "double", "number", "n",
               "boolean", "ns", "SYSMIS"),
       new_any("integer", "int", "number", "n",
               "integer", "ns", "SYSMIS"),
       new_atom("format"),
       new_leaf("ni_format", "struct fmt_spec",
                "format", "f", "num_input_format"),
       new_leaf("no_format", "struct fmt_spec",
                "format", "f", "num_output_format"),
       new_leaf("pos_int", "int", "integer", "n",
                "positive_integer_constant"),
       new_atom("variable"),
       new_leaf("num_var", "const struct variable *",
                "variable", "Vn", "num_variable"),
       new_leaf("str_var", "const struct variable *",
                "variable", "Vs", "string_variable"),
       new_leaf("var", "const struct variable *",
                "variable", "V", "variable"),
       new_leaf("vector", "const struct vector *",
                "vector", "v", "vector"),
       new_any("num_vec_elem", "double", "number", "n",
               "number", "ns", "SYSMIS"),
       new_leaf("expr_node", "const struct expr_node *",
                "expr_node", "e", "expr_node"),
       new_auxonly("expression", "struct expression *", "e"),
       new_auxonly("case", "const struct ccase *", "c"),
       new_auxonly("case_idx", "size_t", "case_idx"),
       new_auxonly("dataset", "struct dataset *", "ds"),
       new_atom("return_number"),
       new_atom("return_string"),
       new_atom("operation") >>

\* The keys of a dict given as the list of its values.
Keys(dict_) == {dict_[i].name : i \in 1..Len(dict_)}

TypeNames == Keys(types)

\* dict_[name], for a dict given as the list of its values
Lookup(dict_, name) ==
    dict_[CHOOSE i \in 1..Len(dict_) : dict_[i].name = name]

\* types[name]
TypeNamed(name) == Lookup(types, name)

\* Type.parse on an identifier token: whether it names a type.
IsTypeToken(token_) == token_ \in TypeNames

-----------------------------------------------------------------------------
(* The tokenizer *)

\* The characters str.lstrip() and the \s of a regular expression take for
\* whitespace (the vertical tab is left out).
Whitespace == {" ", "\t", "\n", "\r", "\f"}

\* [a-zA-Z_]
IdStart ==
    {"a", "b", "c", "d", "e", "f", "g", "h", "i", "j", "k", "l", "m", "n", "o",
     "p", "q", "r", "s", "t", "u", "v", "w", "x", "y", "z", "A", "B", "C", "D",
     "E", "F", "G", "H", "I", "J", "K", "L", "M", "N", "O", "P", "Q", "R", "S",
     "T", "U", "V", "W", "X", "Y", "Z", "_"}

\* [0-9]
DigitChars == {Digits[i] : i \in 1..Len(Digits)}

\* [a-zA-Z_.0-9]
IdChars == IdStart \cup DigitChars \cup {"."}

\* [][(),*;.]
Punct == {"]", "[", "(", ")", ",", "*", ";", "."}

\* Variant: no character opens a nesting level.
ClosingOnly == {}

\* The characters that open a nesting level in accumulate_balanced.
Opening == {"[", "(", "{"}

\* The characters that close a nesting level in accumulate_balanced.
Closing == {"]", ")", "}"}

\* 'line is None': no line holds a newline.
NoLine == "\nNone"

ErrEOF == "unexpected end of file"
ErrUnbalanced == "unbalanced parentheses"
ErrBadCharacter == "bad character in input"

\* The i-th character of s, from 1.
CharAt(s, i) == SubSeq(s, i, i)

\* s[i:], i from 0.
From(s, i) == SubSeq(s, i + 1, Len(s))

RECURSIVE lstrip(_, _)
\* s.lstrip(chars)
lstrip(s, chars) ==
    IF Len(s) > 0 /\ CharAt(s, 1) \in chars THEN lstrip(From(s, 1), chars)
    ELSE s

RECURSIVE rstrip(_, _)
\* s.rstrip(chars)
rstrip(s, chars) ==
    IF Len(s) > 0 /\ CharAt(s, Len(s)) \in chars
    THEN rstrip(SubSeq(s, 1, Len(s) - 1), chars)
    ELSE s

\* s.strip(chars)
strip(s, chars) == rstrip(lstrip(s, chars), chars)

\* s.find(sub): the least offset of sub in s, or -1.
find(s, sub) ==
    LET at == {i \in 0..(Len(s) - Len(sub)) :
                  SubSeq(s, i + 1, i + Len(sub)) = sub}
    IN  IF at = {} THEN 0 - 1 ELSE CHOOSE i \in at : \A j \in at : i <= j

\* in_file.readline(): the characters up to the first newline and the
\* newline, or all of them when there is none; '' at the end of the file.
readline(in_file_) ==
    LET nl == find(in_file_, "\n")
    IN  IF nl < 0 THEN [line |-> in_file_, in_file |-> ""]
        ELSE [line |-> SubSeq(in_file_, 1, nl + 1),
              in_file |-> From(in_file_, nl + 1)]

\* Lines 596-599 of get_line, on the line that was read.
get_line_strip(line_) ==
    LET stripped == rstrip(line_, {"\r", "\n"})
        comment_ofs == find(stripped, "//")
    IN  IF comment_ofs >= 0 THEN SubSeq(stripped, 1, comment_ofs)
        ELSE stripped

\* get_line (lines 587-599): the new line and what is left of in_file.
get_line(in_file_) ==
    IF readline(in_file_).line = ""
    THEN [line |-> NoLine, in_file |-> ""]
    ELSE [line |-> get_line_strip(readline(in_file_).line),
          in_file |-> readline(in_file_).in_file]

RECURSIVE lookahead_loop(_, _)
\* The loop of lookahead (lines 546-556).
lookahead_loop(line_, in_file_) ==
    IF lstrip(line_, Whitespace) # ""
    THEN [err |-> "", eof |-> FALSE, line |-> lstrip(line_, Whitespace),
          in_file |-> in_file_]
    ELSE IF get_line(in_file_).line = NoLine
    THEN [err |-> "", eof |-> TRUE, line |-> NoLine, in_file |-> ""]
    ELSE lookahead_loop(get_line(in_file_).line, get_line(in_file_).in_file)

\* lookahead (lines 540-556): err is the message of die, eof tells that
\* token and toktype were set to 'eof'.
lookahead(line_, in_file_) ==
    IF line_ = NoLine
    THEN [err |-> ErrEOF, eof |-> FALSE, line |-> line_, in_file |-> in_file_]
    ELSE lookahead_loop(line_, in_file_)

RECURSIVE accumulate_from(_, _, _, _, _, _, _)
\* The loops of accumulate_balanced (lines 567-584) from the character of
\* offset idx of line_, with s and nest as they are then.  Iterating over a
\* line that is None raises a TypeError.
accumulate_from(end, swallow_end, line_, in_file_, idx, s, nest) ==
    IF line_ = NoLine
    THEN [err |-> Traceback, s |-> s, line |-> line_, in_file |-> in_file_]
    ELSE IF idx >= Len(line_)
    THEN accumulate_from(end, swallow_end, get_line(in_file_).line,
                         get_line(in_file_).in_file, 0, s \o "\n", nest)
    ELSE LET c == CharAt(line_, idx + 1)
         IN  IF c \in end /\ nest = 0
             THEN [err |-> "",
                   s |-> strip(s, {"\r", "\n"}),
                   line |-> IF swallow_end THEN From(From(line_, idx), 1)
                            ELSE From(line_, idx),
                   in_file |-> in_file_]
             ELSE IF c \in Opening
             THEN accumulate_from(end, swallow_end, line_, in_file_, idx + 1,
                                  s \o c, nest + 1)
             ELSE IF c \in Closing
             THEN IF nest > 0
                  THEN accumulate_from(end, swallow_end, line_, in_file_,
                                       idx + 1, s \o c, nest - 1)
                  ELSE [err |-> ErrUnbalanced, s |-> s, line |-> line_,
                        in_file |-> in_file_]
             ELSE accumulate_from(end, swallow_end, line_, in_file_, idx + 1,
                                  s \o c, nest)

\* accumulate_balanced(end, swallow_end) (lines 559-584).
accumulate_balanced(end, swallow_end, line_, in_file_) ==
    accumulate_from(end, swallow_end, line_, in_file_, 0, "", 0)

RECURSIVE MatchLen(_, _)
\* The length of the longest prefix of s made of characters of chars.
MatchLen(s, chars) ==
    IF Len(s) > 0 /\ CharAt(s, 1) \in chars
    THEN 1 + MatchLen(From(s, 1), chars)
    ELSE 0

RECURSIVE int(_, _)
\* int(s) for a string of digits, acc being the value of the digits read.
int(s, acc) ==
    IF Len(s) = 0 THEN acc
    ELSE int(From(s, 1),
             10 * acc + (CHOOSE d \in 0..9 : Digits[d + 1] = CharAt(s, 1)))

\* The result of get_token when an accumulation a gave the token.
accumulated(toktype_, a, token_) ==
    [err |-> a.err, token |-> token_, toktype |-> toktype_, line |-> a.line,
     in_file |-> a.in_file]

\* Lines 503-537 of get_token, on a line that lookahead left.
get_token_of(line_, in_file_) ==
    IF CharAt(line_, 1) \in IdStart
    THEN [err |-> "", token |-> SubSeq(line_, 1, MatchLen(line_, IdChars)),
          toktype |-> "id", line |-> From(line_, MatchLen(line_, IdChars)),
          in_file |-> in_file_]
    ELSE IF CharAt(line_, 1) \in DigitChars
    THEN [err |-> "",
          token |-> int(SubSeq(line_, 1, MatchLen(line_, DigitChars)), 0),
          toktype |-> "int", line |-> From(line_, MatchLen(line_, DigitChars)),
          in_file |-> in_file_]
    ELSE IF CharAt(line_, 1) \in Punct
    THEN [err |-> "", token |-> CharAt(line_, 1), toktype |-> "punct",
          line |-> From(line_, 1), in_file |-> in_file_]
    ELSE IF CharAt(line_, 1) = "="
    THEN accumulated("expression",
             accumulate_balanced({";"}, TRUE,
                                 lstrip(From(line_, 1), Whitespace), in_file_),
             accumulate_balanced({";"}, TRUE,
                                 lstrip(From(line_, 1), Whitespace),
                                 in_file_).s)
    ELSE IF CharAt(line_, 1) = "{"
    THEN accumulated("block",
             accumulate_balanced({"}"}, TRUE, From(line_, 1), in_file_),
             rstrip(accumulate_balanced({"}"}, TRUE, From(line_, 1),
                                        in_file_).s,
                    {"\n"}))
    ELSE [err |-> ErrBadCharacter, token |-> Unbound, toktype |-> Unbound,
          line |-> line_, in_file |-> in_file_]

\* get_token, given what lookahead returns.
get_token_after(la) ==
    IF la.err # ""
    THEN [err |-> la.err, token |-> Unbound, toktype |-> Unbound,
          line |-> la.line, in_file |-> la.in_file]
    ELSE IF la.eof
    THEN [err |-> "", token |-> "eof", toktype |-> "eof", line |-> la.line,
          in_file |-> la.in_file]
    ELSE get_token_of(la.line, la.in_file)

\* get_token (lines 492-537): the message of die or the new token, toktype,
\* line and rest of in_file.
get_token(line_, in_file_) == get_token_after(lookahead(line_, in_file_))

-----------------------------------------------------------------------------
(* Operations *)

\* Op.__init__, lines 216-218: the canonical identifier.
opname(name, category, args) ==
    LET base == ReplaceDots("OP_" \o name)
    IN  IF category = "function"
        THEN base \o "_"
             \o Join([i \in 1..Len(args) |-> TypeNamed(args[i].type_).mangle],
                     "")
        ELSE base

\* Whether Op.__init__ raises AttributeError: a function's argument of a
\* type without a mangle code.
OpInitRaises(category, args) ==
    /\ category = "function"
    /\ \E i \in 1..Len(args) : ~HasAttr(TypeNamed(args[i].type_), "mangle")

Op(name, category, returns, args, aux, expr, block, min_valid, optimizable, unimplemented, extension, perm_only, absorb_miss, no_abbrev) ==
    [name |-> name, category |-> category, returns |-> returns,
     args |-> args, aux |-> aux, expression |-> expr, block |-> block,
     min_valid |-> min_valid, optimizable |-> optimizable,
     unimplemented |-> unimplemented, extension |-> extension,
     perm_only |-> perm_only, absorb_miss |-> absorb_miss,
     no_abbrev |-> no_abbrev, opname |-> opname(name, category, args)]

\* Op.array_arg: the last argument if it is an array, else NoArg.
NoArg == [name |-> "", type_ |-> "", idx |-> NoIdx, times |-> 0,
          condition |-> None]

array_arg(op) ==
    IF Len(op.args) > 0 /\ op.args[Len(op.args)].idx # NoIdx
    THEN op.args[Len(op.args)]
    ELSE NoArg

-----------------------------------------------------------------------------
(* The parser *)

\* The fixed part of each message die() writes.
ErrReturnType == "is not a valid return type"
ErrCategory == "'operator' or 'function' expected"
ErrUnderscore == "function name may not contain underscore"
ErrPeriod == "operator name may not contain period"
ErrArrayLast == "array must be last argument"
ErrArrayType == "only double and string arrays supported"
ErrFactor == "multiplication factor must be two"
ErrParse == "parse error"
ErrAuxRole == "is not allowed as auxiliary data"
ErrRandom == "random variate functions must be marked 'no_opt'"
ErrCaseAux == "operators with aux data must be marked 'no_opt'"
ErrStringArg == "returns string and has double or bool argument, but is not marked ABSORB_MISS"
ErrStringCond == "returns string but has argument with condition"
ErrBody == "block or expression expected"
ErrNoArray == "can't have minimum valid count without array arg"
ErrNotDouble == "minimum valid count allowed only with double array"
ErrTimes == "can't have minimum valid count if array has multiplication factor"
ErrDuplicate == "duplicate operation name"
ErrUsage == "output file must be specified"
ErrOutputType == "unknown output type"

Arg(name, type_, idx, times, condition_) ==
    [name |-> name, type_ |-> type_, idx |-> idx, times |-> times,
     condition |-> condition_]

\* Arg.parse on the tokens of one argument.  raw.type is "" when the type
\* identifier is omitted; raw.shape tells what follows the name: "plain"
\* (a ',' or ')'), "array" (a '[') or "cond" (anything else, raw.cond being
\* the text accumulated up to the ',' or ')'); raw.times is the integer after
\* '*', 0 when there is no '*'.
Arg_parse(raw) ==
    LET type_ == IF IsTypeToken(raw.type) THEN raw.type ELSE "number"
    IN  IF raw.shape = "plain"
        THEN [err |-> "", arg |-> Arg(raw.name, type_, NoIdx, 1, None)]
        ELSE IF raw.shape = "array"
        THEN IF type_ \notin {"number", "string"}
             THEN [err |-> ErrArrayType, arg |-> NoArg]
             ELSE IF raw.times = 0
             THEN [err |-> "", arg |-> Arg(raw.name, type_, raw.idx, 1, None)]
             ELSE IF raw.times # 2
             THEN [err |-> ErrFactor, arg |-> NoArg]
             ELSE [err |-> "",
                   arg |-> Arg(raw.name, type_, raw.idx, raw.times, None)]
        ELSE [err |-> "",
              arg |-> Arg(raw.name, type_, NoIdx, 1,
                          raw.name \o " " \o raw.cond)]

\* Variant: an argument may follow an array.
ArrayLastErrorOff(arg) == ""

\* Lines 405-408: what follows an argument arg is not ')'.
ArrayLastError(arg) == IF arg.idx # NoIdx THEN ErrArrayLast ELSE ""

RECURSIVE ParseArgs(_, _, _)
\* The argument loop, lines 400-411, from the i-th argument on.
ParseArgs(raws, i, args) ==
    IF i > Len(raws) THEN [err |-> "", args |-> args]
    ELSE LET r == Arg_parse(raws[i])
         IN  IF r.err # "" THEN [err |-> r.err, args |-> args]
             ELSE IF i = Len(raws)
             THEN [err |-> "", args |-> Append(args, r.arg)]
             ELSE IF ArrayLastError(r.arg) # ""
             THEN [err |-> ArrayLastError(r.arg), args |-> Append(args, r.arg)]
             ELSE ParseArgs(raws, i + 1, Append(args, r.arg))

\* A character that \b counts as part of a word.
IsWordChar(c) == c # "." /\ \E i \in 1..Len(Ascii) : Ascii[i] = c

\* The replacement of one maximal run of word characters.
RewriteWord(word, names) == IF word \in names THEN "arg_" \o word ELSE word

RECURSIVE RewriteFrom(_, _, _)
RewriteFrom(s, word, names) ==
    IF Len(s) = 0 THEN RewriteWord(word, names)
    ELSE IF IsWordChar(Head(s))
    THEN RewriteFrom(Tail(s), word \o Head(s), names)
    ELSE RewriteWord(word, names) \o Head(s) \o RewriteFrom(Tail(s), "", names)

\* re.sub(r'\b(a|b|...)\b', r'arg_\1', condition): every maximal run of
\* word characters that is the name of an argument gets the prefix arg_.
RewriteCondition(condition_, names) == RewriteFrom(condition_, "", names)

\* Lines 413-417.
RewriteConditions(args) ==
    LET names == {args[i].name : i \in 1..Len(args)}
    IN  [i \in 1..Len(args) |->
           IF args[i].condition # None
           THEN [args[i] EXCEPT
                   !.condition = RewriteCondition(args[i].condition, names)]
           ELSE args[i]]

RECURSIVE ParseAux(_, _, _)
\* The auxiliary data loop, lines 419-428.
ParseAux(raws, i, aux) ==
    IF i > Len(raws) THEN [err |-> "", aux |-> aux]
    ELSE IF ~IsTypeToken(raws[i].type) THEN [err |-> ErrParse, aux |-> aux]
    ELSE IF TypeNamed(raws[i].type).role \notin {"leaf", "auxonly"}
    THEN [err |-> ErrAuxRole, aux |-> aux]
    ELSE ParseAux(raws, i + 1,
                  Append(aux, [TYPE |-> raws[i].type, NAME |-> raws[i].name]))

\* d == s for a dict d and a str s: objects of these two types never
\* compare equal.
DictEqualsStr(d, s) == FALSE

\* key in aux, line 434: aux is a list of dicts, key a str.
KeyInAux(key, aux) == \E i \in 1..Len(aux) : DictEqualsStr(aux[i], key)

\* Lines 430-436.
OptimizableError(optimizable, name, aux) ==
    IF ~optimizable THEN ""
    ELSE IF StartsWith(name, "RV.") THEN ErrRandom
    ELSE IF \E key \in {"CASE", "CASE_IDX"} : KeyInAux(key, aux)
    THEN ErrCaseAux
    ELSE ""

RECURSIVE StringError(_, _)
\* The loop of lines 439-445, from the i-th argument on.
StringError(args, i) ==
    IF i > Len(args) THEN ""
    ELSE IF args[i].type_ \in {"number", "boolean"} THEN ErrStringArg
    ELSE IF args[i].condition # None THEN ErrStringCond
    ELSE StringError(args, i + 1)

\* Variant: the arguments of an operation that returns a string are not
\* looked at.
StringRuleErrorOff(return_type, absorb_miss, args) == ""

\* Lines 438-445.
StringRuleError(return_type, absorb_miss, args) ==
    IF return_type = "string" /\ ~absorb_miss THEN StringError(args, 1)
    ELSE ""

\* Lines 467-475.
MinValidError(min_valid, op) ==
    IF min_valid > 0
    THEN IF array_arg(op) = NoArg THEN ErrNoArray
         ELSE IF array_arg(op).type_ # "number" THEN ErrNotDouble
         ELSE IF array_arg(op).times # 1 THEN ErrTimes
         ELSE ""
    ELSE ""

\* Variant: an opname that is already in ops is not an error.
DuplicateErrorOff(op, ops_) == ""

\* Lines 477-478.
DuplicateError(op, ops_) == IF op.opname \in ops_ THEN ErrDuplicate ELSE ""

\* One iteration of the loop of parse_input, lines 350-483, on the tokens of
\* declaration d, with the value 'expression' has before it.  err is "" when
\* the operation is accepted, the message of die(), or Traceback when an
\* exception is raised; op is the operation and expression the new value of
\* the local.
parse_operation(d, expression_, ops_) ==
    LET optimizable == "no_opt" \notin d.mods
        extension == "extension" \in d.mods
        perm_only == "perm_only" \in d.mods
        no_abbrev == "no_abbrev" \in d.mods
        return_type == IF IsTypeToken(d.rtype) THEN d.rtype ELSE "number"
        m == MinValidMatch(d.name)
        name == m.prefix
        min_valid == m.min_valid
        absorb_miss == ("absorb_miss" \in d.mods) \/ m.matched
        pa == ParseArgs(d.args, 1, <<>>)
        args == RewriteConditions(pa.args)
        px == ParseAux(d.aux, 1, <<>>)
        aux == px.aux
        unimplemented ==
            d.body.kind = "expression" /\ d.body.text = "unimplemented"
        block == IF d.body.kind = "block" THEN d.body.text ELSE None
        new_expression ==
            IF d.body.kind = "block" THEN None
            ELSE IF unimplemented THEN expression_
            ELSE d.body.text
        op == Op(name, d.cat, return_type, args, aux, new_expression, block,
                 min_valid, optimizable, unimplemented, extension, perm_only,
                 absorb_miss, no_abbrev)
        err ==
            IF return_type \notin {"number", "string", "boolean", "num_vec_elem"}
            THEN ErrReturnType
            ELSE IF d.cat \notin {"operator", "function"} THEN ErrCategory
            ELSE IF d.cat = "function" /\ Contains(d.name, "_")
            THEN ErrUnderscore
            ELSE IF d.cat = "operator" /\ Contains(d.name, ".") THEN ErrPeriod
            ELSE IF pa.err # "" THEN pa.err
            ELSE IF px.err # "" THEN px.err
            ELSE IF OptimizableError(optimizable, name, aux) # ""
            THEN OptimizableError(optimizable, name, aux)
            ELSE IF StringRuleError(return_type, absorb_miss, args) # ""
            THEN StringRuleError(return_type, absorb_miss, args)
            ELSE IF d.body.kind \notin {"block", "expression"} THEN ErrBody
            ELSE IF new_expression = Unbound THEN Traceback
            ELSE IF OpInitRaises(d.cat, args) THEN Traceback
            ELSE IF MinValidError(min_valid, op) # ""
            THEN MinValidError(min_valid, op)
            ELSE DuplicateError(op, ops_)
    IN  [err |-> err, op |-> op, expression |-> new_expression]

-----------------------------------------------------------------------------
(* The emitters.  An emitter gives the writes it makes to sys.stdout, one *)
(* element for each call of write, and ok, which is FALSE when an         *)
(* exception ends it.                                                      *)

RECURSIVE Flatten(_)
\* The concatenation of a list of lists.
Flatten(lists) ==
    IF Len(lists) = 0 THEN <<>> ELSE Head(lists) \o Flatten(Tail(lists))

\* 'for op in order' over the writes of each operation: the loop ends at the
\* first operation that raises.
ForEachOp(res) ==
    LET bad == {i \in 1..Len(res) : ~res[i].ok}
        n == IF bad = {} THEN Len(res) ELSE SetMin(bad)
    IN  [ok |-> bad = {}, out |-> Flatten([i \in 1..n |-> res[i].out])]

\* Whether the truth value of a str that may be None is true.
Truthy(s) == s # None /\ s # ""

\* Variant: an array gives its pointer and no count.
evaluate_h_arg_pointer(arg, c_type) ==
    IF arg.idx = NoIdx THEN <<c_type \o arg.name>>
    ELSE <<c_type \o arg.name \o "[]">>

\* Lines 705-709: the parameters one argument gives.
evaluate_h_arg(arg, c_type) ==
    IF arg.idx = NoIdx THEN <<c_type \o arg.name>>
    ELSE <<c_type \o arg.name \o "[]", "size_t " \o arg.idx>>

\* ['void'] if not args
VoidIfEmpty(args) == IF Len(args) = 0 THEN <<"void">> ELSE args

\* Lines 703-713: the parameter list of the evaluator function.
evaluate_h_args(op) ==
    VoidIfEmpty(
        Flatten([i \in 1..Len(op.args) |->
            evaluate_h_arg(op.args[i], TypeNamed(op.args[i].type_).c_type)])
        \o [i \in 1..Len(op.aux) |->
              TypeNamed(op.aux[i].TYPE).c_type \o op.aux[i].NAME])

\* Lines 699-724, for one operation.
evaluate_h_op(op) ==
    IF op.unimplemented THEN [ok |-> TRUE, out |-> <<>>]
    ELSE IF \E i \in 1..Len(op.args) :
                ~HasAttr(TypeNamed(op.args[i].type_), "c_type")
    THEN [ok |-> FALSE, out |-> <<>>]
    ELSE [ok |-> TRUE,
          out |-> << "static inline " \o TypeNamed(op.returns).c_type \o "\n",
                     "eval_" \o op.opname \o " ("
                        \o Join(evaluate_h_args(op), ", ") \o ")\n",
                     "{\n",
                     IF Truthy(op.block) THEN op.block \o "\n"
                     ELSE "  return " \o op.expression \o ";\n",
                     "}\n\n" >>]

generate_evaluate_h(order_) ==
    LET r == ForEachOp([i \in 1..Len(order_) |-> evaluate_h_op(order_[i])])
    IN  [ok |-> r.ok, out |-> <<"#include \"helpers.h\"\n\n">> \o r.out]

\* Variant: nothing makes the operation system-missing.
sysmis_cond_empty(op, min_valid_src) == <<>>

\* Op.sysmis_decl, lines 240-260: the list sysmis_cond.
sysmis_cond(op, min_valid_src) ==
    LET last == op.args[Len(op.args)]
        missing ==
            IF ~op.absorb_miss
            THEN Flatten([i \in 1..Len(op.args) |->
                    LET arg == op.args[i]
                    IN  IF arg.idx = NoIdx
                        THEN IF arg.type_ \in {"number", "boolean", "integer"}
                             THEN <<"!is_valid (arg_" \o arg.name \o ")">>
                             ELSE <<>>
                        ELSE IF arg.type_ = "number"
                        THEN <<"count_valid (arg_" \o arg.name \o ", arg_"
                                 \o arg.idx \o ") < arg_" \o arg.idx>>
                        ELSE <<>>])
            ELSE IF op.min_valid > 0
            THEN <<"count_valid (arg_" \o last.name \o ", arg_" \o last.idx
                     \o ") < " \o min_valid_src>>
            ELSE <<>>
        invalid ==
            Flatten([i \in 1..Len(op.args) |->
                IF op.args[i].condition # None
                THEN <<"!(" \o op.args[i].condition \o ")">>
                ELSE <<>>])
    IN  missing \o invalid

\* Variant: no condition makes a declaration.
sysmis_join_none(sysmis_cond_) == None

\* Op.sysmis_decl, lines 261-263.
sysmis_join(sysmis_cond_) ==
    IF Len(sysmis_cond_) > 0
    THEN "bool force_sysmis = " \o Join(sysmis_cond_, " || ")
    ELSE None

\* Op.sysmis_decl
sysmis_decl(op, min_valid_src) == sysmis_join(sysmis_cond(op, min_valid_src))

\* Variant: an int argument is passed as it is.
evaluate_inc_int_actual_plain(op, arg) == "arg_" \o arg.name

\* Lines 740-744: the actual argument for an argument whose C type is int.
evaluate_inc_int_actual(op, arg) ==
    IF op.absorb_miss
    THEN "arg_" \o arg.name \o " == SYSMIS ? INT_MIN : arg_" \o arg.name
    ELSE "arg_" \o arg.name

\* Variant: the declarations are added behind those made so far.
evaluate_inc_append(new, decls) == decls \o new

\* Lines 751 and 758-760: decls = [...] + decls.
evaluate_inc_prepend(new, decls) == new \o decls

\* Lines 737-765: the body of 'for arg in op.args' on the lists decls and args.
evaluate_inc_arg_of(op, arg, type_, st) ==
    LET is_int == type_.c_type = "int "
        c_type == IF is_int THEN "double " ELSE type_.c_type
        args1 ==
            Append(st.args,
                   IF is_int THEN evaluate_inc_int_actual(op, arg)
                   ELSE "arg_" \o arg.name)
        decl == c_type \o "arg_" \o arg.name
    IN  IF arg.idx = NoIdx
        THEN [args |-> args1,
              decls |-> IF type_.role = "any"
                        THEN evaluate_inc_prepend(
                                 <<decl \o " = *--" \o type_.stack>>, st.decls)
                        ELSE Append(st.decls, decl \o " = op++->" \o type_.atom)]
        ELSE [args |-> Append(args1,
                              "arg_" \o arg.idx
                              \o (IF arg.times # 1
                                  THEN " / " \o IntToStr(arg.times) ELSE "")),
              decls |-> evaluate_inc_prepend(
                            << "size_t arg_" \o arg.idx \o " = op++->integer",
                               c_type \o "*arg_" \o arg.name \o " = "
                                  \o type_.stack \o " -= arg_" \o arg.idx >>,
                            st.decls)]

evaluate_inc_arg(op, arg, st) ==
    evaluate_inc_arg_of(op, arg, TypeNamed(arg.type_), st)

\* Whether the body of 'for arg in op.args' raises: the type has no c_type,
\* or 'assert False' is reached.
evaluate_inc_arg_raises(arg) ==
    \/ ~HasAttr(TypeNamed(arg.type_), "c_type")
    \/ arg.idx = NoIdx /\ TypeNamed(arg.type_).role \notin {"any", "leaf"}

\* Lines 766-778: the body of 'for aux in op.aux'.
evaluate_inc_aux_of(aux, type_, st) ==
        IF type_.role = "leaf"
        THEN [decls |-> Append(st.decls,
                               type_.c_type \o "aux_" \o aux.NAME
                               \o " = op++->" \o type_.atom),
              args |-> Append(st.args, "aux_" \o aux.NAME)]
        ELSE IF type_.name = "expr_node"
        THEN [decls |-> Append(st.decls,
                               type_.c_type \o "aux_" \o aux.NAME
                               \o " = op++->node"),
              args |-> Append(st.args, "aux_" \o aux.NAME)]
        ELSE IF type_.role = "auxonly"
        THEN [decls |-> st.decls, args |-> Append(st.args, type_.auxonly_value)]
        ELSE st

evaluate_inc_aux(aux, st) == evaluate_inc_aux_of(aux, TypeNamed(aux.TYPE), st)

RECURSIVE evaluate_inc_args(_, _, _)
\* 'for arg in op.args' from the i-th argument on.
evaluate_inc_args(op, i, st) ==
    IF i > Len(op.args) THEN st
    ELSE evaluate_inc_args(op, i + 1, evaluate_inc_arg(op, op.args[i], st))

RECURSIVE evaluate_inc_auxes(_, _, _)
\* 'for aux in op.aux' from the i-th datum on.
evaluate_inc_auxes(op, i, st) ==
    IF i > Len(op.aux) THEN st
    ELSE evaluate_inc_auxes(op, i + 1, evaluate_inc_aux(op.aux[i], st))

\* Lines 780-784.
evaluate_inc_locals_of(op, st, cond) ==
    [decls |-> IF cond # None THEN Append(st.decls, cond) ELSE st.decls,
     args |-> st.args,
     sysmis_cond |-> cond,
     result |-> "eval_" \o op.opname \o " (" \o Join(st.args, ", ") \o ")"]

\* Lines 734-784: decls, args and sysmis_cond of one implemented operation.
evaluate_inc_locals(op) ==
    evaluate_inc_locals_of(op,
        evaluate_inc_auxes(op, 1,
            evaluate_inc_args(op, 1, [decls |-> <<>>, args |-> <<>>])),
        sysmis_decl(op, "op++->integer"))

\* Lines 786-802: the writes for one implemented operation.
evaluate_inc_case(op, l, returns) ==
    <<"case " \o op.opname \o ":\n">>
    \o (IF Len(l.decls) > 0
        THEN <<"  {\n">>
             \o [i \in 1..Len(l.decls) |-> "    " \o l.decls[i] \o ";\n"]
             \o (IF l.sysmis_cond # None
                 THEN <<"    *" \o returns.stack \o "++ = force_sysmis ? "
                          \o returns.missing_value \o " : " \o l.result
                          \o ";\n">>
                 ELSE <<"    *" \o returns.stack \o "++ = " \o l.result
                          \o ";\n">>)
             \o <<"  }\n">>
        ELSE <<"  *" \o returns.stack \o "++ = " \o l.result \o ";\n">>)
    \o <<"  break;\n\n">>

\* Lines 728-802, for one operation.
evaluate_inc_op(op) ==
    IF op.unimplemented
    THEN [ok |-> TRUE,
          out |-> <<"case " \o op.opname \o ":\n", "  NOT_REACHED ();\n\n">>]
    ELSE IF \E i \in 1..Len(op.args) : evaluate_inc_arg_raises(op.args[i])
    THEN [ok |-> FALSE, out |-> <<>>]
    ELSE [ok |-> TRUE,
          out |-> evaluate_inc_case(op, evaluate_inc_locals(op),
                                    TypeNamed(op.returns))]

generate_evaluate_inc(order_) ==
    ForEachOp([i \in 1..Len(order_) |-> evaluate_inc_op(order_[i])])

\* print_range
print_range(prefix, first_, last) ==
    << "    " \o prefix \o "_first = " \o first_ \o ",\n",
       "    " \o prefix \o "_last = " \o last \o ",\n",
       "    n_" \o prefix \o " = " \o prefix \o "_last - " \o prefix
          \o "_first + 1" >>

\* type_.title() for the three words print_operations is called with
Title(type_) ==
    CASE type_ = "atom" -> "Atom"
      [] type_ = "function" -> "Function"
      [] type_ = "operator" -> "Operator"

\* print_operations: names[0] raises IndexError when names is empty, after
\* the comment line was written.
print_operations(type_, first_, names) ==
    IF Len(names) = 0
    THEN [ok |-> FALSE, out |-> <<"    /* " \o Title(type_) \o " types. */\n">>]
    ELSE [ok |-> TRUE,
          out |-> << "    /* " \o Title(type_) \o " types. */\n",
                     "    " \o names[1] \o " = " \o first_ \o ",\n" >>
                  \o [i \in 1..(Len(names) - 1) |-> "    " \o names[i + 1] \o ",\n"]
                  \o print_range("OP_" \o type_, names[1], names[Len(names)])
                  \o <<",\n\n">>]

\* print_predicate
print_predicate(function, category) ==
    << "\nstatic inline bool\n",
       function \o " (operation_type op)\n",
       "{\n" >>
    \o (IF function # "is_operation"
        THEN <<"  assert (is_operation (op));\n">> ELSE <<>>)
    \o << "  return op >= " \o category \o "_first && op <= " \o category
            \o "_last;\n",
          "}\n" >>

\* The names of the types that are not auxiliary-only, in the order of
\* types.values().
RECURSIVE NonAuxonlyTypes(_)
NonAuxonlyTypes(i) ==
    IF i > Len(types) THEN <<>>
    ELSE (IF types[i].role # "auxonly" THEN <<types[i].name>> ELSE <<>>)
         \o NonAuxonlyTypes(i + 1)

\* 'OP_%s' % name for each name
OpPrefixed(names) == [i \in 1..Len(names) |-> "OP_" \o names[i]]

\* Lines 811-814.
atoms == OpPrefixed(NonAuxonlyTypes(1))

\* Lines 806-810.
operations_h_head ==
    <<"#include <stdlib.h>\n", "#include <stdbool.h>\n\n", "typedef enum",
      "  {\n">>

\* Lines 821-829.
operations_h_tail ==
    print_range("OP_composite", "OP_function_first", "OP_operator_last")
    \o <<",\n\n">>
    \o print_range("OP", "OP_atom_first", "OP_composite_last")
    \o <<"\n  }\n", "operation_type, atom_type;\n">>
    \o print_predicate("is_operation", "OP")
    \o print_predicate("is_atom", "OP_atom")
    \o print_predicate("is_composite", "OP_composite")
    \o print_predicate("is_function", "OP_function")
    \o print_predicate("is_operator", "OP_operator")

\* Lines 816-829, given what the three calls of print_operations do.
operations_h_of(a, f, o) ==
    IF ~a.ok THEN [ok |-> FALSE, out |-> operations_h_head \o a.out]
    ELSE IF ~f.ok
    THEN [ok |-> FALSE, out |-> operations_h_head \o a.out \o f.out]
    ELSE IF ~o.ok
    THEN [ok |-> FALSE, out |-> operations_h_head \o a.out \o f.out \o o.out]
    ELSE [ok |-> TRUE,
          out |-> operations_h_head \o a.out \o f.out \o o.out
                  \o operations_h_tail]

\* [op.opname for op in list]
Opnames(list) == [i \in 1..Len(list) |-> list[i].opname]

generate_operations_h(funcs_, opers_) ==
    operations_h_of(
        print_operations("atom", IntToStr(1), atoms),
        print_operations("function", "OP_atom_last + 1", Opnames(funcs_)),
        print_operations("operator", "OP_function_last + 1", Opnames(opers_)))

\* Lines 868-886: the declarations of the arguments.
optimize_inc_arg_decl(arg, type_, arg_idx) ==
        LET func == IF type_.name = "integer" THEN "get_integer_arg"
                    ELSE "get_" \o type_.atom \o "_arg"
        IN  IF arg.idx = NoIdx
            THEN <<type_.c_type \o "arg_" \o arg.name \o " = " \o func
                     \o " (node, " \o IntToStr(arg_idx) \o ")">>
            ELSE << "size_t arg_" \o arg.idx \o " = node->n_args"
                       \o (IF arg_idx > 0 THEN " - " \o IntToStr(arg_idx)
                           ELSE ""),
                    type_.c_type \o "*arg_" \o arg.name \o " = get_"
                       \o type_.atom \o "_args  (node, " \o IntToStr(arg_idx)
                       \o ", arg_" \o arg.idx \o ", e)" >>

\* Lines 866-886.
optimize_inc_arg_decls(op) ==
    Flatten([i \in 1..Len(op.args) |->
        optimize_inc_arg_decl(op.args[i], TypeNamed(op.args[i].type_), i - 1)])

\* Lines 893-899: the actual arguments one argument gives.
optimize_inc_call_arg(arg) ==
    <<"arg_" \o arg.name>>
    \o (IF arg.idx # NoIdx
        THEN <<"arg_" \o arg.idx
                 \o (IF arg.times # 1 THEN " / " \o IntToStr(arg.times)
                     ELSE "")>>
        ELSE <<>>)

\* Lines 901-909: the actual argument one auxiliary datum gives.
optimize_inc_call_aux(type_) ==
    IF type_.role = "leaf" THEN "node" ELSE type_.auxonly_value

\* Lines 892-909: the actual arguments of the call.
optimize_inc_call_args(op) ==
    Flatten([i \in 1..Len(op.args) |-> optimize_inc_call_arg(op.args[i])])
    \o [i \in 1..Len(op.aux) |->
          optimize_inc_call_aux(TypeNamed(op.aux[i].TYPE))]

optimize_inc_arg_raises(arg, type_) ==
    \/ ~HasAttr(type_, "c_type")
    \/ arg.idx = NoIdx /\ type_.name # "integer" /\ ~HasAttr(type_, "atom")

\* Whether an exception ends the handling of the operation: an argument type
\* without c_type, a scalar argument type without atom (other than integer),
\* or an auxiliary datum of a leaf type other than expr_node (the assertion
\* of line 904).
optimize_inc_raises(op) ==
    \/ \E i \in 1..Len(op.args) :
          optimize_inc_arg_raises(op.args[i], TypeNamed(op.args[i].type_))
    \/ \E i \in 1..Len(op.aux) :
          /\ TypeNamed(op.aux[i].TYPE).role = "leaf"
          /\ op.aux[i].TYPE # "expr_node"

\* Lines 911-916, given decls, sysmis_cond and the call.
optimize_inc_locals_of(returns, decls, cond, call) ==
    [sysmis_cond |-> cond,
     call |-> call,
     decls |-> IF Len(decls) > 0 /\ cond # None
               THEN Append(decls,
                           returns.c_type \o "result = force_sysmis ? "
                           \o returns.missing_value \o " : " \o call)
               ELSE decls,
     result |-> IF Len(decls) > 0 /\ cond # None THEN "result" ELSE call]

\* Variant: the declaration of the guard is left out.
optimize_inc_decls_plain(decls, cond) == decls

\* Lines 888-890.
optimize_inc_decls(decls, cond) ==
    IF cond # None THEN Append(decls, cond) ELSE decls

\* Lines 866-916: decls, sysmis_cond and result of one operation.
optimize_inc_locals(op) ==
    optimize_inc_locals_of(
        TypeNamed(op.returns),
        optimize_inc_decls(optimize_inc_arg_decls(op),
                           sysmis_decl(op, "node->min_valid")),
        sysmis_decl(op, "node->min_valid"),
        "eval_" \o op.opname \o " (" \o Join(optimize_inc_call_args(op), ", ")
           \o ")")

\* Lines 918-928: the writes for one operation.
optimize_inc_case(op, l) ==
    <<"case " \o op.opname \o ":\n">>
    \o (IF Len(l.decls) > 0
        THEN <<"  {\n">>
             \o [i \in 1..Len(l.decls) |-> "    " \o l.decls[i] \o ";\n"]
             \o <<"    return expr_allocate_" \o op.returns \o " (e, "
                    \o l.result \o ");\n",
                  "  }\n">>
        ELSE <<"  return expr_allocate_" \o op.returns \o " (e, " \o l.result
                 \o ");\n">>)
    \o <<"\n">>

\* Lines 860-928, for one operation.
optimize_inc_op(op) ==
    IF ~op.optimizable \/ op.unimplemented
    THEN [ok |-> TRUE,
          out |-> <<"case " \o op.opname \o ":\n", "  NOT_REACHED ();\n\n">>]
    ELSE IF optimize_inc_raises(op) THEN [ok |-> FALSE, out |-> <<>>]
    ELSE [ok |-> TRUE, out |-> optimize_inc_case(op, optimize_inc_locals(op))]

generate_optimize_inc(order_) ==
    ForEachOp([i \in 1..Len(order_) |-> optimize_inc_op(order_[i])])

\* Variant: a single element whatever n is.
RepeatOnce(x, n) == <<x>>

\* n copies of a value, as 'for i in range(n)' appends them
Repeat(x, n) == [i \in 1..n |-> x]

\* Variant: the array argument is left out of the prototype.
prototype_of_scalars(op, scalars, array, human_name) ==
    op.name \o "(" \o Join(scalars, ", ") \o ")"

\* Op.prototype, lines 276-299, given the human names of the scalar
\* arguments and the array argument.
prototype_of(op, scalars, array, human_name) ==
    LET args == IF array = NoArg THEN scalars
                ELSE IF op.min_valid = 0
                THEN scalars \o Repeat(human_name, array.times)
                ELSE scalars \o Repeat(human_name, op.min_valid)
        opt_args == IF array = NoArg THEN <<>>
                    ELSE IF op.min_valid = 0
                    THEN Repeat(human_name, array.times)
                    ELSE <<human_name>>
    IN  op.name \o "(" \o Join(args, ", ")
        \o (IF Len(opt_args) > 0
            THEN "[, " \o Join(opt_args, ", ") \o "]..." ELSE "")
        \o ")"

\* The human name of the type of an argument, "" for NoArg.
HumanName(arg) ==
    IF arg = NoArg THEN "" ELSE TypeNamed(arg.type_).human_name

\* Op.prototype
prototype(op) ==
    IF op.category = "function"
    THEN prototype_of(op,
             Flatten([i \in 1..Len(op.args) |->
                 IF op.args[i].idx = NoIdx
                 THEN <<HumanName(op.args[i])>> ELSE <<>>]),
             array_arg(op), HumanName(array_arg(op)))
    ELSE None

\* Variant: no flag applies.
flags_none(op) == "0"

\* Op.flags
flags(op) ==
    LET list ==
            (IF op.absorb_miss THEN <<"OPF_ABSORB_MISS">> ELSE <<>>)
            \o (IF array_arg(op) # NoArg THEN <<"OPF_ARRAY_OPERAND">> ELSE <<>>)
            \o (IF op.min_valid > 0 THEN <<"OPF_MIN_VALID">> ELSE <<>>)
            \o (IF ~op.optimizable THEN <<"OPF_NONOPTIMIZABLE">> ELSE <<>>)
            \o (IF op.extension THEN <<"OPF_EXTENSION">> ELSE <<>>)
            \o (IF op.unimplemented THEN <<"OPF_UNIMPLEMENTED">> ELSE <<>>)
            \o (IF op.perm_only THEN <<"OPF_PERM_ONLY">> ELSE <<>>)
            \o (IF op.no_abbrev THEN <<"OPF_NO_ABBREV">> ELSE <<>>)
            \o (IF \E i \in 1..Len(op.aux) : op.aux[i].TYPE = "expr_node"
                THEN <<"OPF_EXPR_NODE">> ELSE <<>>)
    IN  IF Len(list) > 0 THEN Join(list, " | ") ELSE "0"

\* op.array_arg().times if op.array_arg() else 0
ArrayTimes(array) == IF array # NoArg THEN array.times ELSE 0

\* '"%s"' % s if s else 'NULL'
QuoteOrNull(s_) == IF Truthy(s_) THEN "\"" \o s_ \o "\"" ELSE "NULL"

\* Lines 942-959: the members of the record of one operation.
parse_inc_members(op) ==
    << "\"" \o op.name \o "\"",
       QuoteOrNull(prototype(op)),
       flags(op),
       "OP_" \o op.returns,
       IntToStr(Len(op.args)),
       "{" \o Join([i \in 1..Len(op.args) |-> "OP_" \o op.args[i].type_], ", ")
          \o "}",
       IntToStr(op.min_valid),
       IntToStr(ArrayTimes(array_arg(op))) >>

\* Lines 937-939: the record of one type.
parse_inc_type(type_) ==
    "{" \o Join(<<"\"" \o type_.name \o "\"", "\"" \o type_.human_name \o "\"",
                  "0", "OP_" \o type_.name, "0", "{}", "0", "0">>, ", ")
    \o "},\n"

\* Lines 935-939.
parse_inc_types(names) ==
    [i \in 1..Len(names) |-> parse_inc_type(TypeNamed(names[i]))]

generate_parse_inc(order_) ==
    [ok |-> TRUE,
     out |->
       <<"{" \o Join(<<"\"\"", "\"\"", "0", "0", "0", "{}", "0", "0">>, ", ")
           \o "},\n">>
       \o parse_inc_types(NonAuxonlyTypes(1))
       \o [i \in 1..Len(order_) |->
             "{" \o Join(parse_inc_members(order_[i]), ", ") \o "},\n"]]

\* print_header
Header == "/* Generated by generate.py. Do not modify! */\n"

\* print_trailer
Trailer ==
    "\n/*\n   Local Variables:\n   mode: c\n   buffer-read-only: t\n   End:\n*/\n"

OutputTypes ==
    {"evaluate.h", "evaluate.inc", "operations.h", "optimize.inc", "parse.inc"}

\* Lines 1007-1016: the emitter an output type selects.
generate(out_file_name_, funcs_, opers_, order_) ==
    CASE out_file_name_ = "evaluate.h" -> generate_evaluate_h(order_)
      [] out_file_name_ = "evaluate.inc" -> generate_evaluate_inc(order_)
      [] out_file_name_ = "operations.h" -> generate_operations_h(funcs_, opers_)
      [] out_file_name_ = "optimize.inc" -> generate_optimize_inc(order_)
      [] out_file_name_ = "parse.inc" -> generate_parse_inc(order_)

-----------------------------------------------------------------------------
(* The inputs *)

\* The longest input made of the declarations of OverloadDecls.
MaxOps == 3

\* The longest input made of the declarations of RuleDecls.
MaxRuleOps == 1

\* The tokens of one argument (see Arg_parse).
Plain(type, name) ==
    [type |-> type, name |-> name, shape |-> "plain", idx |-> "", times |-> 0,
     cond |-> ""]

Array(type, name, idx, times) ==
    [type |-> type, name |-> name, shape |-> "array", idx |-> idx,
     times |-> times, cond |-> ""]

Cond(type, name, cond) ==
    [type |-> type, name |-> name, shape |-> "cond", idx |-> "", times |-> 0,
     cond |-> cond]

\* The tokens of one auxiliary declaration, 'type name;'.
Aux(type, name) == [type |-> type, name |-> name]

\* The tokens of one declaration: the modifier keywords, the return type
\* ("" when omitted), the category keyword, the name, the arguments, the
\* auxiliary declarations and the body.
Decl(mods, rtype, cat, name, args, aux, body) ==
    [mods |-> mods, rtype |-> rtype, cat |-> cat, name |-> name,
     args |-> args, aux |-> aux, body |-> body]

Expr(text_) == [kind |-> "expression", text |-> text_]

Block(text_) == [kind |-> "block", text |-> text_]

NoBody == [kind |-> "none", text |-> ""]

\* Declarations whose names and argument types collide or overload.
OverloadDecls ==
    { Decl({}, "", "function", "A", <<Plain("", "x")>>, <<>>, Expr("x")),
      Decl({}, "", "function", "A", <<Plain("string", "s")>>, <<>>,
           Block("  return s;")),
      Decl({}, "", "function", "A", <<Plain("var", "v"), Plain("", "x")>>,
           <<>>, Expr("x")),
      Decl({}, "", "function", "A", <<Plain("num_var", "v")>>, <<>>,
           Expr("0")),
      Decl({}, "", "function", "A.1", <<Array("", "x", "n", 0)>>, <<>>,
           Expr("x[0]")),
      Decl({}, "", "function", "A.B", <<>>, <<>>, Expr("1")),
      Decl({}, "", "function", "B", <<>>, <<>>, Expr("unimplemented")),
      Decl({}, "", "operator", "B_", <<>>, <<>>, Expr("2")),
      Decl({}, "boolean", "operator", "A", <<Plain("boolean", "a")>>, <<>>,
           Expr("!a")) }

\* Argument lists for the rule on string-returning operations.
StringRuleArgs ==
    { <<Plain("", "x")>>,
      <<Plain("boolean", "x")>>,
      <<Plain("string", "x")>>,
      <<Plain("integer", "x")>>,
      <<Plain("string", "y"), Cond("string", "x", "!= y")>>,
      <<Array("", "x", "n", 0)>>,
      <<Plain("string", "y"), Array("string", "x", "n", 0)>> }

\* Argument lists for the rules on arrays and on minimum valid counts.
ArrayRuleArgs ==
    { <<>>,
      <<Plain("", "x")>>,
      <<Array("", "x", "n", 0)>>,
      <<Array("string", "x", "n", 0)>>,
      <<Array("", "x", "n", 2)>>,
      <<Plain("", "y"), Array("", "x", "n", 0)>>,
      <<Array("", "x", "n", 0), Plain("", "y")>>,
      <<Array("", "x", "n", 0), Array("", "y", "m", 0)>>,
      <<Plain("", "y"), Array("string", "x", "n", 2), Plain("", "z")>>,
      <<Array("", "x", "n", 3)>>,
      <<Array("boolean", "x", "n", 0)>>,
      <<Cond("", "x", "> 0 && x < y"), Plain("integer", "y")>> }

\* Names and auxiliary data for the rules on optimizable operations.
OptRuleShapes ==
    { <<"RV.X", <<>>>>,
      <<"F", <<Aux("case", "c")>>>>,
      <<"F", <<Aux("case_idx", "i")>>>>,
      <<"F", <<Aux("expression", "e"), Aux("dataset", "ds")>>>>,
      <<"F", <<Aux("expr_node", "n")>>>>,
      <<"F", <<Aux("ni_format", "f")>>>> }

\* One declaration for each of the other paths of the parser.
OtherDecls ==
    { Decl({}, "integer", "function", "F", <<>>, <<>>, Expr("1")),
      Decl({}, "format", "function", "F", <<>>, <<>>, Expr("1")),
      Decl({}, "num_vec_elem", "operator", "ELEM",
           <<Plain("vector", "v"), Plain("", "idx")>>, <<>>, Block("  return 0;")),
      Decl({}, "", "procedure", "F", <<>>, <<>>, Expr("1")),
      Decl({}, "", "function", "F_G", <<>>, <<>>, Expr("1")),
      Decl({}, "", "operator", "F.G", <<>>, <<>>, Expr("1")),
      Decl({}, "", "operator", "F.1", <<Array("", "x", "n", 0)>>, <<>>,
           Expr("1")),
      Decl({}, "", "function", "M.1.2", <<Array("", "x", "n", 0)>>, <<>>,
           Expr("1")),
      Decl({}, "", "function", "M.10", <<Array("", "x", "n", 0)>>, <<>>,
           Expr("1")),
      Decl({}, "", "function", "F", <<>>, <<Aux("number", "x")>>, Expr("1")),
      Decl({}, "", "function", "F", <<>>, <<Aux("y", "x")>>, Expr("1")),
      Decl({}, "", "function", "F", <<>>, <<>>, NoBody),
      Decl({}, "", "function", "F", <<Plain("format", "f")>>, <<>>, Expr("1")),
      Decl({}, "", "operator", "F", <<Plain("format", "f")>>, <<>>, Expr("1")),
      Decl({}, "", "function", "F", <<Plain("case", "c")>>, <<>>, Expr("1")),
      Decl({}, "", "operator", "F", <<Plain("case", "c")>>, <<>>, Expr("1")),
      Decl({}, "", "operator", "F", <<Plain("ni_format", "f")>>, <<>>,
           Expr("1")),
      Decl({"extension", "perm_only", "no_abbrev", "no_opt", "absorb_miss"},
           "number", "function", "F", <<Plain("integer", "i")>>, <<>>,
           Block("  return i;")),
      Decl({"extension"}, "", "function", "F", <<>>, <<>>,
           Expr("unimplemented")) }

\* function SQUARE(x) = x * x;
SquareDecl ==
    Decl({}, "", "function", "SQUARE", <<Plain("", "x")>>, <<>>, Expr("x * x"))

\* function NAME(x, y) = x + y;
NameDecl ==
    Decl({}, "", "function", "NAME", <<Plain("", "x"), Plain("", "y")>>, <<>>,
         Expr("x + y"))

\* function NAME.1(x, y, a[n]) = x + y;
NameArrayDecl ==
    Decl({}, "", "function", "NAME.1",
         <<Plain("", "x"), Plain("", "y"), Array("", "a", "n", 0)>>, <<>>,
         Expr("x + y"))

\* function NAME.1(a[n]) = a[0];
NameOnlyArrayDecl ==
    Decl({}, "", "function", "NAME.1", <<Array("", "a", "n", 0)>>, <<>>,
         Expr("a[0]"))

\* function SUM(x, a[n*2]) expr_node node; expression e; = x;
SumAuxDecl ==
    Decl({}, "", "function", "SUM", <<Plain("", "x"), Array("", "a", "n", 2)>>,
         <<Aux("expr_node", "node"), Aux("expression", "e")>>, Expr("x"))

\* The declarations of the examples.
ExampleDecls ==
    {SquareDecl, NameDecl, NameArrayDecl, NameOnlyArrayDecl, SumAuxDecl}

\* Declarations that take each path of the validation rules.
RuleDecls ==
    { Decl(mods, "string", "function", "S", args, <<>>, Expr("empty_string")) :
        mods \in {{}, {"absorb_miss"}}, args \in StringRuleArgs }
    \cup
    { Decl({}, rtype, "function", name, args, <<>>, Expr("x[0]")) :
        rtype \in {"", "string"}, name \in {"M", "M.0", "M.1", "M.2"},
        args \in ArrayRuleArgs }
    \cup
    { Decl(mods, "", "function", shape[1], <<Plain("", "x")>>, shape[2],
           Expr("x")) :
        mods \in {{}, {"no_opt"}}, shape \in OptRuleShapes }
    \cup OtherDecls
    \cup ExampleDecls

\* The sequences of at most n elements of s.
SeqsUpTo(s, n) == UNION {[1..k -> s] : k \in 0..n}

\* The input files.
Inputs == SeqsUpTo(OverloadDecls, MaxOps) \cup SeqsUpTo(RuleDecls, MaxRuleOps)

\* The values of the -o option; UnknownType stands for every value that is
\* not an output type.
UnknownType == "other"

-----------------------------------------------------------------------------
(* The program *)

NoFirst ==
    [stdout |-> <<>>, stderr |-> "", exit_status |-> Running, order |-> <<>>]

\* The state of a process that starts on an input and a -o option.
Start(text_, out_file_name_) ==
    /\ text = text_
    /\ out_file_name = out_file_name_
    /\ pos = 0
    /\ pc = "main"
    /\ ops = {}
    /\ funcs = <<>>
    /\ opers = <<>>
    /\ order = <<>>
    /\ expression = Unbound
    /\ stdout = <<>>
    /\ stderr = ""
    /\ exit_status = Running

Init ==
    /\ \E text_ \in Inputs, out_file_name_ \in OutputTypes \cup {NoOption, UnknownType} :
          Start(text_, out_file_name_)
    /\ run = 1
    /\ first = NoFirst
    /\ in_file = ""
    /\ line = Unbound
    /\ token = Unbound
    /\ toktype = Unbound
    /\ condition = Unbound

\* die(s), or an uncaught exception: s on stderr and exit status 1.
die(s) ==
    /\ stderr' = s
    /\ exit_status' = 1
    /\ pc' = "exit"

\* Variant: parse_input goes on with the lists it finds.
parse_input_globals_kept == [ops |-> {}, funcs |-> funcs, opers |-> opers]

\* Lines 346-348: parse_input starts from empty containers.
parse_input_globals == [ops |-> {}, funcs |-> <<>>, opers |-> <<>>]

\* Variant: the header is written before the input is parsed.
MainHeaderFirst ==
    /\ pc = "main"
    /\ IF out_file_name = NoOption
       THEN /\ die(ErrUsage)
            /\ UNCHANGED <<pos, ops, funcs, opers, stdout>>
       ELSE /\ pc' = "parse_input"
            /\ pos' = 0
            /\ ops' = parse_input_globals.ops
            /\ funcs' = parse_input_globals.funcs
            /\ opers' = parse_input_globals.opers
            /\ stdout' = Append(stdout, Header)
            /\ UNCHANGED <<stderr, exit_status>>
    /\ UNCHANGED <<text, out_file_name, order, expression, run, first>>
    /\ UNCHANGED lexvars

\* Lines 985-1003 and 331-348: the options are read, the input is opened and
\* parse_input starts.
Main ==
    /\ pc = "main"
    /\ IF out_file_name = NoOption
       THEN /\ die(ErrUsage)
            /\ UNCHANGED <<pos, ops, funcs, opers>>
       ELSE /\ pc' = "parse_input"
            /\ pos' = 0
            /\ ops' = parse_input_globals.ops
            /\ funcs' = parse_input_globals.funcs
            /\ opers' = parse_input_globals.opers
            /\ UNCHANGED <<stderr, exit_status>>
    /\ UNCHANGED <<text, out_file_name, order, expression, stdout, run, first>>
    /\ UNCHANGED lexvars

\* Lines 477-483, or the end of the program, given the result r of the rest
\* of the iteration.
Parsed(r) ==
    IF r.err = ""
    THEN /\ ops' = ops \cup {r.op.opname}
         /\ funcs' = IF r.op.category = "function"
                     THEN Append(funcs, r.op) ELSE funcs
         /\ opers' = IF r.op.category = "function"
                     THEN opers ELSE Append(opers, r.op)
         /\ expression' = r.expression
         /\ pos' = pos + 1
         /\ UNCHANGED <<pc, stderr, exit_status>>
    ELSE /\ die(r.err)
         /\ UNCHANGED <<ops, funcs, opers, expression, pos>>

\* Lines 350-483: one iteration of the loop of parse_input.
ParseOperation ==
    /\ pc = "parse_input"
    /\ pos < Len(text)
    /\ Parsed(parse_operation(text[pos + 1], expression, ops))
    /\ UNCHANGED <<text, out_file_name, order, stdout, run, first>>
    /\ UNCHANGED lexvars

\* Variant: the functions stay in the order of the input.
UnsortedFuncs(funcs_) == funcs_

\* sorted(funcs, key=lambda f: (f.name, f.opname))
SortedFuncs(funcs_) ==
    sorted([i \in 1..Len(funcs_) |->
              [key |-> <<funcs_[i].name, funcs_[i].opname>>, item |-> funcs_[i]]])

\* sorted(opers, key=lambda o: o.name)
SortedOpers(opers_) ==
    sorted([i \in 1..Len(opers_) |->
              [key |-> <<opers_[i].name>>, item |-> opers_[i]]])

\* Lines 485-489: the end of the input was reached.
EndOfInput ==
    /\ pc = "parse_input"
    /\ pos = Len(text)
    /\ funcs' = SortedFuncs(funcs)
    /\ opers' = SortedOpers(opers)
    /\ order' = SortedFuncs(funcs) \o SortedOpers(opers)
    /\ pc' = "print_header"
    /\ UNCHANGED <<text, pos, out_file_name, ops, expression, stdout, stderr,
                   exit_status, run, first>>
    /\ UNCHANGED lexvars

\* Line 1006.
PrintHeader ==
    /\ pc = "print_header"
    /\ stdout' = Append(stdout, Header)
    /\ pc' = "generate"
    /\ UNCHANGED <<text, pos, out_file_name, ops, funcs, opers, order,
                   expression, stderr, exit_status, run, first>>
    /\ UNCHANGED lexvars

\* The writes of the emitter reach stdout; an exception ends the program.
Generated(r) ==
    /\ stdout' = stdout \o r.out
    /\ IF r.ok
       THEN pc' = "print_trailer" /\ UNCHANGED <<stderr, exit_status>>
       ELSE die(Traceback)

\* Lines 1007-1018: the selected emitter runs.
Generate ==
    /\ pc = "generate"
    /\ IF out_file_name \in OutputTypes
       THEN Generated(generate(out_file_name, funcs, opers, order))
       ELSE die(ErrOutputType) /\ UNCHANGED stdout
    /\ UNCHANGED <<text, pos, out_file_name, ops, funcs, opers, order,
                   expression, run, first>>
    /\ UNCHANGED lexvars

\* Line 1019, and the end of the program.
PrintTrailer ==
    /\ pc = "print_trailer"
    /\ stdout' = Append(stdout, Trailer)
    /\ pc' = "exit"
    /\ exit_status' = 0
    /\ UNCHANGED <<text, pos, out_file_name, ops, funcs, opers, order,
                   expression, stderr, run, first>>
    /\ UNCHANGED lexvars

Next ==
    \/ Main
    \/ ParseOperation
    \/ EndOfInput
    \/ PrintHeader
    \/ Generate
    \/ PrintTrailer

Spec == Init /\ [][Next]_vars

\* The program is run again on the same input with the same option; first
\* keeps what the first run gave.  The second run has new output streams and
\* an unbound local, and finds the globals as the first run left them.
Rerun ==
    /\ pc = "exit"
    /\ run = 1
    /\ run' = 2
    /\ first' = [stdout |-> stdout, stderr |-> stderr,
                 exit_status |-> exit_status, order |-> order]
    /\ pos' = 0
    /\ pc' = "main"
    /\ expression' = Unbound
    /\ stdout' = <<>>
    /\ stderr' = ""
    /\ exit_status' = Running
    /\ UNCHANGED <<text, out_file_name, ops, funcs, opers, order>>
    /\ UNCHANGED lexvars

NextTwice == Next \/ Rerun

SpecTwice == Init /\ [][NextTwice]_vars

-----------------------------------------------------------------------------
(* The tokenizer on the characters of the input *)

\* The longest input, in pieces.
MaxPieces == 4

\* What the inputs are made of: a letter, the brackets, the terminators of
\* the accumulations, the end of a line and the start of a comment.
Pieces == {"a", "(", ")", "[", "]", "{", "}", ";", ",", "\n", "//"}

\* How the inputs start: an expression, a block, or the name of an argument
\* and the start of its condition.
Starts == {"=", "= ", "{", "x >"}

RECURSIVE Made(_)
\* The texts made of n pieces.
Made(n) ==
    IF n = 0 THEN {""}
    ELSE {t \o piece : t \in Made(n - 1), piece \in Pieces}

\* The input files of the tokenizer.
LexInputs ==
    {start \o t : start \in Starts, t \in UNION {Made(n) : n \in 0..MaxPieces}}

\* What the tokenizer leaves alone.
progvars == <<text, pos, out_file_name, ops, funcs, opers, order, expression,
              stdout, run, first>>

\* The state when parse_input opened in_file (line 1001).
InitLex ==
    /\ in_file \in LexInputs
    /\ line = Unbound
    /\ token = Unbound
    /\ toktype = Unbound
    /\ condition = Unbound
    /\ pc = "get_line"
    /\ text = <<>>
    /\ out_file_name = "evaluate.h"
    /\ pos = 0
    /\ ops = {}
    /\ funcs = <<>>
    /\ opers = <<>>
    /\ order = <<>>
    /\ expression = Unbound
    /\ stdout = <<>>
    /\ stderr = ""
    /\ exit_status = Running
    /\ run = 1
    /\ first = NoFirst

\* Line 340: parse_input reads the first line.
GetLine ==
    /\ pc = "get_line"
    /\ line' = get_line(in_file).line
    /\ in_file' = get_line(in_file).in_file
    /\ pc' = "get_token"
    /\ UNCHANGED <<token, toktype, condition, stderr, exit_status, progvars>>

\* The globals after get_token returned r, or the end of the program.  The
\* parser then calls get_token again or, on an identifier that names an
\* argument, goes on with Arg.parse.
Tokenized(r) ==
    IF r.err = ""
    THEN /\ token' = r.token
         /\ toktype' = r.toktype
         /\ line' = r.line
         /\ in_file' = r.in_file
         /\ pc' \in IF r.toktype = "eof" THEN {"eof"}
                    ELSE IF r.toktype = "id" THEN {"get_token", "arg_parse"}
                    ELSE {"get_token"}
         /\ UNCHANGED <<stderr, exit_status>>
    ELSE /\ die(r.err)
         /\ UNCHANGED <<token, toktype, line, in_file>>

\* A call of get_token (lines 492-537) by the parser.
GetToken ==
    /\ pc = "get_token"
    /\ Tokenized(get_token(line, in_file))
    /\ UNCHANGED <<condition, progvars>>

\* Lines 669-671 of Arg.parse, given the accumulation a of the condition.
ArgCondition(a) ==
    IF a.err = ""
    THEN /\ condition' = token \o " " \o a.s
         /\ Tokenized(get_token(a.line, a.in_file))
    ELSE /\ die(a.err)
         /\ UNCHANGED lexvars

\* Lines 650-671 of Arg.parse, given what lookahead returns: the token is
\* the name of the argument.  line[0] raises a TypeError when lookahead met
\* the end of the file.
ArgShape(la) ==
    IF la.err # ""
    THEN die(la.err) /\ UNCHANGED lexvars
    ELSE IF la.eof
    THEN die(Traceback) /\ UNCHANGED lexvars
    ELSE IF CharAt(la.line, 1) \in {"[", ",", ")"}
    THEN /\ condition' = None
         /\ Tokenized(get_token(la.line, la.in_file))
    ELSE ArgCondition(accumulate_balanced({",", ")"}, FALSE, la.line,
                                          la.in_file))

\* Arg.parse from the name of the argument to the token that follows the
\* argument or starts its array (lines 648-671).
ArgParse ==
    /\ pc = "arg_parse"
    /\ ArgShape(lookahead(line, in_file))
    /\ UNCHANGED progvars

NextLex ==
    \/ GetLine
    \/ GetToken
    \/ ArgParse

SpecLex == InitLex /\ [][NextLex]_vars

-----------------------------------------------------------------------------
(* Properties *)

\* The accepted operations.
Accepted == funcs \o opers

\* What parse_input makes of the declaration at the read position.
Declared == parse_operation(text[pos + 1], expression, ops)

\* The mangle codes of the arguments of an operation, in declaration order.
MangleCodes(op) ==
    [i \in 1..Len(op.args) |-> TypeNamed(op.args[i].type_).mangle]

\* The declaration d has an array argument that is not its last argument.
ArrayNotLast(d) ==
    \E k \in 1..Len(d.args) : k < Len(d.args) /\ d.args[k].shape = "array"

\* The last argument of the declaration d is an array of numbers without a
\* multiplication factor.
PlainNumberArrayLast(d) ==
    /\ Len(d.args) > 0
    /\ d.args[Len(d.args)].shape = "array"
    /\ d.args[Len(d.args)].type \in {"", "number"}
    /\ d.args[Len(d.args)].times = 0

\* key(a) <= key(b) for two functions, key being (name, opname).
FuncLeq(a, b) ==
    \/ StrLess(a.name, b.name)
    \/ a.name = b.name /\ ~StrLess(b.opname, a.opname)

DuplicateIsFatal ==
    /\ pc = "parse_input"
    /\ pos < Len(text)
    /\ Declared.err \in {"", ErrDuplicate}
    /\ \E i \in 1..Len(Accepted) : Accepted[i].opname = Declared.op.opname
    => /\ pc' = "exit"
       /\ exit_status' = 1
       /\ funcs' = funcs
       /\ opers' = opers

\* C2: no two accepted operations have the same opname, and a declaration
\* that gives the opname of an earlier operation is a fatal error and is
\* not added to the list.
C2_IdentifierUniqueness ==
    /\ [](\A i, j \in 1..Len(Accepted) :
             i # j => Accepted[i].opname # Accepted[j].opname)
    /\ [][DuplicateIsFatal]_vars

\* The program ended at a duplicate of an accepted operation.
C2_Witness ==
    /\ pc = "exit"
    /\ stderr = ErrDuplicate
    /\ exit_status = 1
    /\ Len(Accepted) = pos
    /\ pos >= 1

\* C3: the order the emitters get is the functions in increasing order of
\* (name, opname), then the operators in increasing order of name, and holds
\* every accepted operation once.
C3_Ordering ==
    pc \in {"print_header", "generate", "print_trailer"} =>
        LET nf == Cardinality({i \in 1..Len(order) :
                                  order[i].category = "function"})
        IN  /\ Len(order) = Len(text)
            /\ Len(order) = Cardinality(ops)
            /\ {order[i].opname : i \in 1..Len(order)} = ops
            /\ \A i \in 1..Len(order) :
                  order[i].category = "function" <=> i <= nf
            /\ \A i, j \in 1..nf : i < j => FuncLeq(order[i], order[j])
            /\ \A i, j \in (nf + 1)..Len(order) :
                  i < j => ~StrLess(order[j].name, order[i].name)

\* An operator declared first comes after two functions of the same name,
\* which change places.
C3_Witness ==
    /\ pc = "generate"
    /\ Len(order) = 3
    /\ text[1].cat = "operator"
    /\ text[2].args[1].type = "string"
    /\ order[1].name = order[2].name
    /\ order[1].opname = "OP_A_n"
    /\ order[2].opname = "OP_A_s"

\* C4: when parse_input ends the program, nothing was written to the
\* output and the exit status is not zero.
C4_NoPartialOutput ==
    [][pc = "parse_input" /\ pc' = "exit" =>
          /\ stdout' = <<>>
          /\ exit_status' = 1
          /\ stderr' # ""]_vars

\* The program ended at the second declaration, an output type being given.
C4_Witness ==
    /\ pc = "exit"
    /\ out_file_name \in OutputTypes
    /\ pos = 1
    /\ Len(text) > 1
    /\ exit_status = 1

\* C5: the output of every run is empty, the exit status being non-zero, or
\* is the header, the writes of the emitter -o names and the trailer; without
\* -o the program ends with the usage message and a non-zero status.
C5_OutputFraming ==
    pc = "exit" =>
        /\ \/ stdout = <<>> /\ exit_status # 0
           \/ /\ out_file_name \in OutputTypes
              /\ stdout = <<Header>>
                          \o generate(out_file_name, funcs, opers, order).out
                          \o <<Trailer>>
        /\ out_file_name = NoOption => exit_status = 1 /\ stderr = ErrUsage

\* C6: a declaration with an array argument that is not the last argument
\* is never accepted and the run does not end with status 0; in every
\* accepted operation only the last argument can be an array.
C6_ArrayPlacement ==
    /\ \A i \in 1..Len(text) :
          ArrayNotLast(text[i]) =>
              /\ pos < i
              /\ exit_status # 0
              /\ pc = "exit" => exit_status = 1
    /\ \A i \in 1..Len(Accepted) :
          \A k \in 1..Len(Accepted[i].args) :
              Accepted[i].args[k].idx # NoIdx => k = Len(Accepted[i].args)

\* The program ended at an array that another argument follows.
C6_Witness ==
    /\ pc = "exit"
    /\ stderr = ErrArrayLast
    /\ ArrayNotLast(text[pos + 1])

\* C7: no accepted operation that returns a string and does not absorb
\* missing values has an argument of type number or boolean or an argument
\* with a condition, and a declaration with the absorb_miss modifier never
\* ends the program with the messages of this rule.
C7_AbsorptionRule ==
    /\ \A i \in 1..Len(Accepted) :
          Accepted[i].returns = "string" /\ ~Accepted[i].absorb_miss =>
              \A k \in 1..Len(Accepted[i].args) :
                  /\ Accepted[i].args[k].type_ \notin {"number", "boolean"}
                  /\ Accepted[i].args[k].condition = None
    /\ pc = "exit" /\ stderr \in {ErrStringArg, ErrStringCond} =>
          /\ "absorb_miss" \notin text[pos + 1].mods
          /\ text[pos + 1].rtype = "string"

\* An operation that returns a string, absorbs missing values and has an
\* argument of type number was accepted.
C7_Witness ==
    /\ pc = "print_header"
    /\ Len(funcs) = 1
    /\ funcs[1].returns = "string"
    /\ funcs[1].absorb_miss
    /\ "absorb_miss" \in text[1].mods
    /\ funcs[1].args[1].type_ = "number"

\* C8: every accepted declaration whose name ends in a period and digits,
\* whatever the digits, has a last argument that is an array of numbers
\* without a multiplication factor.
C8_MinValidRule ==
    \A i \in 1..Len(text) :
        i <= pos /\ MinValidMatch(text[i].name).matched =>
            PlainNumberArrayLast(text[i])

\* C9: no accepted operation that is optimizable has a name that begins
\* with RV. or auxiliary data of type case or case_idx.
C9_OptimizableChecks ==
    \A i \in 1..Len(Accepted) :
        Accepted[i].optimizable =>
            /\ ~StartsWith(Accepted[i].name, "RV.")
            /\ \A k \in 1..Len(Accepted[i].aux) :
                  Accepted[i].aux[k].TYPE \notin {"case", "case_idx"}

\* C10: a function is a duplicate only of an accepted function with the
\* same name and the same sequence of mangle codes: two functions with the
\* same name and different sequences of mangle codes are both accepted.
C10_DistinctOverloads ==
    pc = "exit" /\ stderr = ErrDuplicate /\ Declared.op.category = "function" =>
        \E i \in 1..Len(funcs) :
            /\ funcs[i].name = Declared.op.name
            /\ MangleCodes(funcs[i]) = MangleCodes(Declared.op)

\* 'x in list' for a sequence.
In(x, list) == \E i \in 1..Len(list) : list[i] = x

\* The record parse.inc holds for function SQUARE(x) = x * x.
SquareRecord ==
    "{\"SQUARE\", \"SQUARE(number)\", 0, OP_number, 1, {OP_number}, 0, 0},\n"

\* C11 as stated: for function SQUARE(x) = x * x, evaluate.inc holds the
\* case of OP_SQUARE_n, which pops one number, has no missing-value guard
\* and pushes the result of the call; parse.inc holds its record with one
\* argument and the prototype SQUARE(number).
C11_SquareNoGuard ==
    text = <<SquareDecl>> /\ pc = "exit" =>
        /\ out_file_name = "evaluate.inc" =>
              stdout = << Header,
                          "case OP_SQUARE_n:\n",
                          "  {\n",
                          "    double arg_x = *--ns;\n",
                          "    *ns++ = eval_OP_SQUARE_n (arg_x);\n",
                          "  }\n",
                          "  break;\n\n",
                          Trailer >>
        /\ out_file_name = "parse.inc" => In(SquareRecord, stdout)

\* C11, amended: for function SQUARE(x) = x * x, the case of OP_SQUARE_n in
\* evaluate.inc pops one number, computes the guard !is_valid (arg_x) and
\* pushes SYSMIS when the guard is true and the result of the call
\* otherwise; parse.inc holds its record with one argument and the
\* prototype SQUARE(number).
C11_SquareScenario ==
    text = <<SquareDecl>> /\ pc = "exit" =>
        /\ out_file_name = "evaluate.inc" =>
              stdout = << Header,
                          "case OP_SQUARE_n:\n",
                          "  {\n",
                          "    double arg_x = *--ns;\n",
                          "    bool force_sysmis = !is_valid (arg_x);\n",
                          "    *ns++ = force_sysmis ? SYSMIS : eval_OP_SQUARE_n (arg_x);\n",
                          "  }\n",
                          "  break;\n\n",
                          Trailer >>
        /\ out_file_name = "parse.inc" =>
              /\ In(SquareRecord, stdout)
              /\ exit_status = 0

\* evaluate.inc was written for function SQUARE(x) = x * x.
C11_Witness ==
    /\ text = <<SquareDecl>>
    /\ pc = "exit"
    /\ out_file_name = "evaluate.inc"
    /\ exit_status = 0
    /\ Len(stdout) = 9

\* C12 as stated: NAME(x, y) has the prototype NAME(number, number), and
\* with a number array added behind the two arguments and a minimum valid
\* count of 1 the prototype is NAME(number[, number]...).
C12_PrototypeExamples ==
    Len(funcs) = 1 =>
        /\ text = <<NameDecl>> => prototype(funcs[1]) = "NAME(number, number)"
        /\ text = <<NameArrayDecl>> =>
              prototype(funcs[1]) = "NAME(number[, number]...)"

\* C12, amended: NAME(x, y) has the prototype NAME(number, number); with a
\* number array added behind the two arguments and a minimum valid count of
\* 1 it is NAME(number, number, number[, number]...), which parse.inc
\* holds; NAME(number[, number]...) is the prototype of NAME.1(a[n]).
C12_PrototypeExamplesAmended ==
    /\ Len(funcs) = 1 =>
          /\ text = <<NameDecl>> =>
                prototype(funcs[1]) = "NAME(number, number)"
          /\ text = <<NameArrayDecl>> =>
                prototype(funcs[1]) = "NAME(number, number, number[, number]...)"
          /\ text = <<NameOnlyArrayDecl>> =>
                prototype(funcs[1]) = "NAME(number[, number]...)"
    /\ text = <<NameArrayDecl>> /\ pc = "exit" /\ out_file_name = "parse.inc" =>
          In("{\"NAME\", \"NAME(number, number, number[, number]...)\", "
             \o "OPF_ABSORB_MISS | OPF_ARRAY_OPERAND | OPF_MIN_VALID, "
             \o "OP_number, 3, {OP_number, OP_number, OP_number}, 1, 1},\n",
             stdout)

\* parse.inc was written for NAME.1(x, y, a[n]).
C12_Witness ==
    /\ text = <<NameArrayDecl>>
    /\ pc = "exit"
    /\ out_file_name = "parse.inc"
    /\ exit_status = 0
    /\ funcs[1].min_valid = 1

\* The human name of the type of an argument, as init_all_types gives it.
HumanNameOf(arg) ==
    types[CHOOSE i \in 1..Len(types) : types[i].name = arg.type_].human_name

RECURSIVE Copies(_, _)
\* n times the string h, separated by ", ".
Copies(h, n) == IF n <= 1 THEN h ELSE h \o ", " \o Copies(h, n - 1)

RECURSIVE ScalarNames(_, _)
\* The human names of the scalar arguments, each followed by sep.
ScalarNames(args, sep) ==
    IF Len(args) = 0 THEN ""
    ELSE IF Head(args).idx # NoIdx THEN ScalarNames(Tail(args), sep)
    ELSE HumanNameOf(Head(args)) \o sep \o ScalarNames(Tail(args), sep)

\* The prototype the rule gives a function.
RulePrototype(op) ==
    LET last == IF Len(op.args) > 0 THEN op.args[Len(op.args)] ELSE NoArg
    IN  IF last.idx = NoIdx
        THEN LET names == ScalarNames(op.args, ", ")
             IN  op.name \o "("
                 \o (IF names = "" THEN ""
                     ELSE SubSeq(names, 1, Len(names) - 2))
                 \o ")"
        ELSE op.name \o "(" \o ScalarNames(op.args, ", ")
             \o Copies(HumanNameOf(last),
                       IF op.min_valid = 0 THEN last.times ELSE op.min_valid)
             \o "[, "
             \o Copies(HumanNameOf(last),
                       IF op.min_valid = 0 THEN last.times ELSE 1)
             \o "]...)"

\* The record of order[i] in a complete parse.inc: the records of the
\* operations are the last writes before the trailer.
RecordOf(i) == stdout[Len(stdout) - 1 - Len(order) + i]

\* C13: the prototype of every accepted function is its name, '(', the human
\* names of its scalar arguments, then for an array argument the human name
\* of its elements as often as the multiplier says (minimum valid count 0)
\* or as the minimum valid count says, and one group '[, ...]...', then ')';
\* without an array there is no group; an operator has no prototype, and
\* parse.inc holds the prototype in quotes, or NULL for an operator.
C13_PrototypeRule ==
    /\ \A i \in 1..Len(funcs) :
          /\ prototype(funcs[i]) = RulePrototype(funcs[i])
          /\ array_arg(funcs[i]) = NoArg => ~Contains(prototype(funcs[i]), "[")
    /\ \A i \in 1..Len(opers) : prototype(opers[i]) = None
    /\ pc = "exit" /\ out_file_name = "parse.inc" /\ exit_status = 0 =>
          \A i \in 1..Len(order) :
              StartsWith(RecordOf(i),
                         "{\"" \o order[i].name \o "\", "
                         \o (IF order[i].category = "function"
                             THEN "\"" \o RulePrototype(order[i]) \o "\""
                             ELSE "NULL")
                         \o ", ")

\* parse.inc was written for a function with a doubled array and for an
\* operator.
C13_Witness ==
    /\ pc = "exit"
    /\ out_file_name = "parse.inc"
    /\ exit_status = 0
    /\ \E i \in 1..Len(order) :
          /\ order[i].category = "function"
          /\ array_arg(order[i]).times = 2
          /\ order[i].min_valid = 0

RECURSIVE Words(_, _)
\* The words of s that blanks separate, word being the one that is open.
Words(s, word) ==
    IF Len(s) = 0 THEN (IF word = "" THEN <<>> ELSE <<word>>)
    ELSE IF Head(s) = " "
    THEN (IF word = "" THEN <<>> ELSE <<word>>) \o Words(Tail(s), "")
    ELSE Words(Tail(s), word \o Head(s))

\* The text of an enumerator that a write to operations.h holds: the write
\* without the indentation and without the ",\n" that may end it.
EnumeratorText(w) ==
    IF EndsWith(w, ",\n") THEN SubSeq(w, 5, Len(w) - 2) ELSE SubSeq(w, 5, Len(w))

\* The writes of a complete operations.h that hold an enumerator.
Enumerators ==
    SelectSeq(stdout,
              LAMBDA w : StartsWith(w, "    ") /\ ~StartsWith(w, "    /*"))

\* The value C gives an operand of an enumerator's initializer: an integer
\* constant or an earlier enumerator.
OperandValue(word, env) ==
    IF IsDigit(Char(word, 1)) THEN DigitsToInt(0, word)
    ELSE (CHOOSE e \in env : e[1] = word)[2]

RECURSIVE InitializerValue(_, _, _)
\* The value of the initializer 'acc words', words being operators and
\* operands in turn.
InitializerValue(acc, words, env) ==
    IF Len(words) = 0 THEN acc
    ELSE InitializerValue(
             IF words[1] = "+" THEN acc + OperandValue(words[2], env)
             ELSE acc - OperandValue(words[2], env),
             SubSeq(words, 3, Len(words)), env)

RECURSIVE EnumValues(_, _, _)
\* The values C gives the enumerators: that of the initializer, or one more
\* than the enumerator before.  env is the set of <<name, value>> so far and
\* prev the value of the enumerator before.
EnumValues(enums, env, prev) ==
    IF Len(enums) = 0 THEN env
    ELSE LET words == Words(EnumeratorText(Head(enums)), "")
             value == IF Len(words) = 1 THEN prev + 1
                      ELSE InitializerValue(OperandValue(words[3], env),
                                            SubSeq(words, 4, Len(words)), env)
         IN  EnumValues(Tail(enums), env \cup {<<words[1], value>>}, value)

\* The value of the enumerator name in the operations.h that was written.
Opcode(name) ==
    (CHOOSE e \in EnumValues(Enumerators, {}, 0 - 1) : e[1] = name)[2]

\* The markers of a category are those of n members that follow base.
RangeIs(category, base, n) ==
    /\ Opcode(category \o "_first") = base + 1
    /\ Opcode(category \o "_last") = base + n
    /\ Opcode("n_" \o category) = n

\* The predicate function tests op against the markers of category.
PredicateIs(function, category) ==
    /\ In("  return op >= " \o category \o "_first && op <= " \o category
          \o "_last;\n", stdout)
    /\ In(function \o " (operation_type op)\n", stdout)

\* C14: for every accepted input, operations.h gives the atoms the values
\* 1, 2, ... in the order of the types, the functions the next values in
\* their sorted order and the operators the next; the first, last and count
\* markers of atoms, functions and operators are those of their members,
\* the composite range is function_first..operator_last and the range of all
\* operations atom_first..composite_last, and each predicate tests its range.
C14_OpcodeRanges ==
    pc = "exit" /\ out_file_name = "operations.h" /\ pos = Len(text) =>
        /\ exit_status = 0
        /\ \A k \in 1..Len(atoms) : Opcode(atoms[k]) = k
        /\ \A k \in 1..Len(funcs) : Opcode(funcs[k].opname) = Len(atoms) + k
        /\ \A k \in 1..Len(opers) :
              Opcode(opers[k].opname) = Len(atoms) + Len(funcs) + k
        /\ RangeIs("OP_atom", 0, Len(atoms))
        /\ RangeIs("OP_function", Len(atoms), Len(funcs))
        /\ RangeIs("OP_operator", Len(atoms) + Len(funcs), Len(opers))
        /\ RangeIs("OP_composite", Len(atoms), Len(funcs) + Len(opers))
        /\ RangeIs("OP", 0, Len(atoms) + Len(funcs) + Len(opers))
        /\ PredicateIs("is_operation", "OP")
        /\ PredicateIs("is_atom", "OP_atom")
        /\ PredicateIs("is_composite", "OP_composite")
        /\ PredicateIs("is_function", "OP_function")
        /\ PredicateIs("is_operator", "OP_operator")

\* The same for the inputs that have a function and an operator.
C14_OpcodeRangesNonEmpty ==
    Len(funcs) > 0 /\ Len(opers) > 0 => C14_OpcodeRanges

\* The multiplier of the array argument of op, 0 without one.
Multiplier(op) ==
    IF Len(op.args) > 0 /\ op.args[Len(op.args)].idx # NoIdx
    THEN op.args[Len(op.args)].times
    ELSE 0

\* The flags in the flag member of the record of op.
FlagSet(op) ==
    LET words == Words(flags(op), "")
    IN  {words[k] : k \in 1..Len(words)} \ {"|"}

\* The flags fs are those of the properties of op.
FlagsAre(fs, op) ==
    /\ "OPF_ABSORB_MISS" \in fs <=> op.absorb_miss
    /\ "OPF_ARRAY_OPERAND" \in fs <=> Multiplier(op) # 0
    /\ "OPF_MIN_VALID" \in fs <=> op.min_valid > 0
    /\ "OPF_NONOPTIMIZABLE" \in fs <=> ~op.optimizable
    /\ "OPF_EXTENSION" \in fs <=> op.extension
    /\ "OPF_UNIMPLEMENTED" \in fs <=> op.unimplemented
    /\ "OPF_PERM_ONLY" \in fs <=> op.perm_only
    /\ "OPF_NO_ABBREV" \in fs <=> op.no_abbrev
    /\ "OPF_EXPR_NODE" \in fs <=>
          \E k \in 1..Len(op.aux) : op.aux[k].TYPE = "expr_node"
    /\ "0" \in fs <=> fs = {"0"}
    /\ fs # {}

\* The type codes of the arguments, separated by ", ".
RECURSIVE ArgCodes(_)
ArgCodes(args) ==
    IF Len(args) = 0 THEN ""
    ELSE "OP_" \o Head(args).type_
         \o (IF Len(args) > 1 THEN ", " ELSE "") \o ArgCodes(Tail(args))

\* C15: the record of every operation in parse.inc holds its name, its
\* prototype, its flags, the code of its return type, the number of its
\* arguments, their type codes in declaration order, its minimum valid
\* count and the multiplier of its array (0 without an array); each flag is
\* there iff the operation has the property, 0 standing for no flag.
C15_MetadataRecord ==
    /\ pc = "parse_input" =>
          \A i \in 1..Len(Accepted) :
              /\ FlagsAre(FlagSet(Accepted[i]), Accepted[i])
              /\ Multiplier(Accepted[i]) \in {0, 1, 2}
    /\ Len(text) = 1 /\ Len(Accepted) = 1 =>
          /\ Len(Accepted[1].args) = Len(text[1].args)
          /\ MinValidMatch(text[1].name).matched =>
                "OPF_ABSORB_MISS" \in FlagSet(Accepted[1])
          /\ Accepted[1].extension <=> "extension" \in text[1].mods
          /\ Accepted[1].perm_only <=> "perm_only" \in text[1].mods
          /\ Accepted[1].no_abbrev <=> "no_abbrev" \in text[1].mods
          /\ Accepted[1].optimizable <=> "no_opt" \notin text[1].mods
    /\ pc = "exit" /\ out_file_name = "parse.inc" /\ exit_status = 0 =>
          \A i \in 1..Len(order) :
              RecordOf(i) =
                  "{\"" \o order[i].name \o "\", "
                  \o (IF order[i].category = "function"
                      THEN "\"" \o RulePrototype(order[i]) \o "\"" ELSE "NULL")
                  \o ", " \o flags(order[i])
                  \o ", OP_" \o order[i].returns
                  \o ", " \o ToString(Len(order[i].args))
                  \o ", {" \o ArgCodes(order[i].args) \o "}"
                  \o ", " \o ToString(order[i].min_valid)
                  \o ", " \o ToString(Multiplier(order[i]))
                  \o "},\n"

\* parse.inc was written for an operation with auxiliary data of type
\* expr_node and for one with all the modifiers.
C15_Witness ==
    /\ pc = "exit"
    /\ out_file_name = "parse.inc"
    /\ exit_status = 0
    /\ \E i \in 1..Len(order) :
          \/ "OPF_EXPR_NODE" \in FlagSet(order[i])
          \/ {"OPF_EXTENSION", "OPF_PERM_ONLY", "OPF_NO_ABBREV",
              "OPF_NONOPTIMIZABLE", "OPF_ABSORB_MISS"} \subseteq FlagSet(order[i])

\* t in s, for two str
HasSubstring(s, t) ==
    \E i \in 1..(Len(s) - Len(t) + 1) : SubSeq(s, i, i + Len(t) - 1) = t

\* The writes evaluate.inc holds for the accepted operation op, when the
\* emitter reaches the end of its case.
StackCase(op) == evaluate_inc_op(op)

\* The write of the case of op that pushes the result.
PushOf(op) ==
    LET out == StackCase(op).out
    IN  out[CHOOSE k \in 1..Len(out) :
                HasSubstring(out[k], "eval_" \o op.opname \o " (")]

\* INT_MIN in place of SYSMIS for the argument arg.
Substituted(arg) ==
    "arg_" \o arg.name \o " == SYSMIS ? INT_MIN : arg_" \o arg.name

\* The integer arguments of the case of op are declared as double and
\* popped from the number stack, and passed with INT_MIN in place of SYSMIS
\* iff substitute, else as they are.
IntegerArgs(op, substitute) ==
    \A k \in 1..Len(op.args) :
        op.args[k].type_ = "integer" =>
            /\ In("    double arg_" \o op.args[k].name \o " = *--ns;\n",
                  StackCase(op).out)
            /\ evaluate_inc_locals(op).args[k] =
                  IF substitute THEN Substituted(op.args[k])
                  ELSE "arg_" \o op.args[k].name
            /\ HasSubstring(PushOf(op), Substituted(op.args[k])) <=> substitute

\* The cases of evaluate.inc, when it is complete, are those of the
\* operations of order.
CasesWritten ==
    pc = "exit" /\ out_file_name = "evaluate.inc" /\ exit_status = 0 =>
        \A i \in 1..Len(order) :
            \A k \in 1..Len(StackCase(order[i]).out) :
                In(StackCase(order[i]).out[k], stdout)

\* C16 as stated: every integer argument of an implemented operation is
\* declared as a double in the case of evaluate.inc, and INT_MIN is passed
\* in place of SYSMIS exactly when the operation does not absorb missing
\* values.
C16_IntegerCoercion ==
    pc = "parse_input" =>
        \A i \in 1..Len(Accepted) :
            ~Accepted[i].unimplemented /\ StackCase(Accepted[i]).ok =>
                IntegerArgs(Accepted[i], ~Accepted[i].absorb_miss)

\* C16, amended: every integer argument of an implemented operation is
\* declared as a double in the case of evaluate.inc, and INT_MIN is passed
\* in place of SYSMIS exactly when the operation absorbs missing values;
\* when it does not, the argument is passed as it is.
C16_IntegerCoercionAmended ==
    /\ pc = "parse_input" =>
          \A i \in 1..Len(Accepted) :
              ~Accepted[i].unimplemented /\ StackCase(Accepted[i]).ok =>
                  IntegerArgs(Accepted[i], Accepted[i].absorb_miss)
    /\ CasesWritten

\* evaluate.inc was written for an operation that absorbs missing values
\* and has an integer argument.
C16_Witness ==
    /\ pc = "exit"
    /\ out_file_name = "evaluate.inc"
    /\ exit_status = 0
    /\ \E i \in 1..Len(order) :
          /\ order[i].absorb_miss
          /\ ~order[i].unimplemented
          /\ \E k \in 1..Len(order[i].args) : order[i].args[k].type_ = "integer"

RECURSIVE MissingTests(_)
\* (a): the tests of the arguments of an operation that does not absorb
\* missing values.
MissingTests(args) ==
    IF Len(args) = 0 THEN <<>>
    ELSE LET arg == Head(args)
         IN  (IF arg.idx = NoIdx /\ arg.type_ \in {"number", "boolean", "integer"}
              THEN <<"!is_valid (arg_" \o arg.name \o ")">>
              ELSE IF arg.idx # NoIdx /\ arg.type_ = "number"
              THEN <<"count_valid (arg_" \o arg.name \o ", arg_" \o arg.idx
                       \o ") < arg_" \o arg.idx>>
              ELSE <<>>)
             \o MissingTests(Tail(args))

RECURSIVE ConditionTests(_)
\* (c): the negation of the condition of each argument that has one.
ConditionTests(args) ==
    IF Len(args) = 0 THEN <<>>
    ELSE (IF Head(args).condition # None
          THEN <<"!(" \o Head(args).condition \o ")">> ELSE <<>>)
         \o ConditionTests(Tail(args))

\* The disjuncts of the guard of op by the rule, the minimum valid count
\* being read from src.
RuleGuard(op, src) ==
    (IF ~op.absorb_miss THEN MissingTests(op.args)
     ELSE IF op.min_valid > 0
     THEN <<"count_valid (arg_" \o op.args[Len(op.args)].name \o ", arg_"
              \o op.args[Len(op.args)].idx \o ") < " \o src>>
     ELSE <<>>)
    \o ConditionTests(op.args)

RECURSIVE Disjunction(_)
\* The disjunction of the tests.
Disjunction(tests) ==
    IF Len(tests) = 1 THEN tests[1]
    ELSE tests[1] \o " || " \o Disjunction(Tail(tests))

\* The missing-value expression of the return type of op.
MissingValueOf(op) ==
    types[CHOOSE i \in 1..Len(types) : types[i].name = op.returns].missing_value

\* The case of op in evaluate.inc has the guard of the rule and pushes the
\* missing value when it is true, or has no guard and pushes the result of
\* the call.
StackGuardIs(op, tests) ==
    LET out == StackCase(op).out
        guards == {k \in 1..Len(out) : HasSubstring(out[k], "force_sysmis =")}
    IN  IF Len(tests) > 0
        THEN /\ Cardinality(guards) = 1
             /\ \A k \in guards :
                   out[k] = "    bool force_sysmis = " \o Disjunction(tests)
                            \o ";\n"
             /\ HasSubstring(PushOf(op),
                             "++ = force_sysmis ? " \o MissingValueOf(op)
                             \o " : eval_" \o op.opname \o " (")
        ELSE /\ guards = {}
             /\ HasSubstring(PushOf(op), "++ = eval_" \o op.opname \o " (")
             /\ ~HasSubstring(PushOf(op), "force_sysmis")

\* C17: the guard of every implemented operation is the disjunction of the
\* tests of its arguments for missing values when it does not absorb them,
\* or of the test of the valid count of its array against the minimum valid
\* count when it absorbs them and has one, and then of the negations of the
\* conditions of its arguments; the case of evaluate.inc has a guard iff
\* there is such a test, and then pushes the missing value of the return
\* type when the guard is true and the result of the call otherwise.
C17_GuardRule ==
    /\ pc = "parse_input" =>
          \A i \in 1..Len(Accepted) :
              ~Accepted[i].unimplemented =>
                  /\ sysmis_cond(Accepted[i], "op++->integer") =
                        RuleGuard(Accepted[i], "op++->integer")
                  /\ StackCase(Accepted[i]).ok =>
                        StackGuardIs(Accepted[i],
                                     RuleGuard(Accepted[i], "op++->integer"))
    /\ pc = "exit" /\ out_file_name = "evaluate.inc" /\ exit_status = 0 =>
          \A i \in 1..Len(order) :
              ~order[i].unimplemented =>
                  In(PushOf(order[i]), stdout)

\* evaluate.inc was written for an operation with a condition and for one
\* with a minimum valid count.
C17_Witness ==
    /\ pc = "exit"
    /\ out_file_name = "evaluate.inc"
    /\ exit_status = 0
    /\ \E i \in 1..Len(order) :
          /\ Len(RuleGuard(order[i], "op++->integer")) >= 3
          /\ \E k \in 1..Len(order[i].args) : order[i].args[k].condition # None

RECURSIVE Replace(_, _, _)
\* s with every occurrence of the text from replaced by the text to.
Replace(s, from, to) ==
    IF Len(s) < Len(from) THEN s
    ELSE IF SubSeq(s, 1, Len(from)) = from
    THEN to \o Replace(SubSeq(s, Len(from) + 1, Len(s)), from, to)
    ELSE SubSeq(s, 1, 1) \o Replace(Tail(s), from, to)

\* The writes optimize.inc holds for the accepted operation op, when the
\* emitter reaches the end of its case.
FoldCase(op) == optimize_inc_op(op)

\* The writes of out that compute a guard.
GuardsOf(out) ==
    SelectSeq(out, LAMBDA write : HasSubstring(write, "bool force_sysmis ="))

\* The writes of out that hold the text t.
WritesWith(out, t) == SelectSeq(out, LAMBDA write : HasSubstring(write, t))

\* The two cases of op agree on the guard and on what is substituted.
SameGuard(op, stack, fold) ==
    /\ Len(GuardsOf(stack)) <= 1
    /\ Len(GuardsOf(fold)) = Len(GuardsOf(stack))
    /\ \A k \in 1..Len(GuardsOf(stack)) :
          GuardsOf(fold)[k] =
              Replace(GuardsOf(stack)[k], "op++->integer", "node->min_valid")
    /\ IF Len(GuardsOf(stack)) = 1
       THEN /\ Len(WritesWith(stack, "++ = force_sysmis ? "
                                     \o MissingValueOf(op) \o " : eval_"
                                     \o op.opname \o " (")) = 1
            /\ Len(WritesWith(fold, "result = force_sysmis ? "
                                    \o MissingValueOf(op) \o " : eval_"
                                    \o op.opname \o " (")) = 1
            /\ Len(WritesWith(fold, "return expr_allocate_" \o op.returns
                                    \o " (e, result);")) = 1
       ELSE /\ Len(WritesWith(stack, "++ = eval_" \o op.opname \o " (")) = 1
            /\ Len(WritesWith(fold, "return expr_allocate_" \o op.returns
                                    \o " (e, eval_" \o op.opname \o " (")) = 1
            /\ Len(WritesWith(stack, "force_sysmis")) = 0
            /\ Len(WritesWith(fold, "force_sysmis")) = 0

MaxElems == 2

\* Whether the operand of arg is popped from the stack of its type.
IsPopped(arg) == arg.idx = NoIdx /\ TypeNamed(arg.type_).role = "any"

\* The stack of the type of arg.
StackOf(arg) == TypeNamed(arg.type_).stack

RECURSIVE Pushed(_, _, _)
\* The operand stacks once the operands of args are pushed in the order of
\* declaration, n operands for an array; each operand carries the name of
\* its argument.
Pushed(args, stacks, n) ==
    IF Len(args) = 0 THEN stacks
    ELSE LET arg == Head(args)
         IN  Pushed(Tail(args),
                    IF IsPopped(arg)
                    THEN [stacks EXCEPT ![StackOf(arg)] = Append(@, arg.name)]
                    ELSE IF arg.idx # NoIdx
                    THEN [stacks EXCEPT ![StackOf(arg)] =
                              @ \o [k \in 1..n |-> arg.name]]
                    ELSE stacks,
                    n)

\* The text of the access that pops the operand of arg.
PopText(arg) == "arg_" \o arg.name \o " = *--" \o StackOf(arg)

\* The text of the access that takes the window of the array arg.
WindowText(arg) ==
    "*arg_" \o arg.name \o " = " \o StackOf(arg) \o " -= arg_" \o arg.idx

\* No stacks: an access bound a local to an operand of another argument.
Misbound == [misbound |-> TRUE]

\* The stacks after the access of the write, or Misbound when the access binds a
\* local to an operand of another argument.
Accessed(write, args, stacks, n) ==
    IF \E i \in 1..Len(args) :
          IsPopped(args[i]) /\ HasSubstring(write, PopText(args[i]))
    THEN LET arg == args[CHOOSE i \in 1..Len(args) :
                       IsPopped(args[i]) /\ HasSubstring(write, PopText(args[i]))]
             stack == stacks[StackOf(arg)]
         IN  IF Len(stack) > 0 /\ stack[Len(stack)] = arg.name
             THEN [stacks EXCEPT ![StackOf(arg)] = SubSeq(@, 1, Len(@) - 1)]
             ELSE Misbound
    ELSE IF \E i \in 1..Len(args) :
          args[i].idx # NoIdx /\ HasSubstring(write, WindowText(args[i]))
    THEN LET arg == args[CHOOSE i \in 1..Len(args) :
                       args[i].idx # NoIdx
                       /\ HasSubstring(write, WindowText(args[i]))]
             stack == stacks[StackOf(arg)]
         IN  IF /\ Len(stack) >= n
                /\ \A k \in (Len(stack) - n + 1)..Len(stack) :
                      stack[k] = arg.name
             THEN [stacks EXCEPT ![StackOf(arg)] = SubSeq(@, 1, Len(@) - n)]
             ELSE Misbound
    ELSE stacks

RECURSIVE Binds(_, _, _, _)
\* Whether the accesses of the writes out, in their order, bind every local
\* to the operands of its own argument and leave the stacks empty.
Binds(out, args, stacks, n) ==
    IF "misbound" \in DOMAIN stacks THEN FALSE
    ELSE IF Len(out) = 0
    THEN \A s \in DOMAIN stacks : stacks[s] = <<>>
    ELSE Binds(Tail(out), args, Accessed(Head(out), args, stacks, n), n)

\* The stacks of the types of the arguments of op, empty.
NoOperands(op) ==
    [s \in {StackOf(op.args[i]) : i \in 1..Len(op.args)} |-> <<>>]

\* The places in out of the writes that hold the text t.
Places(out, t) == {k \in 1..Len(out) : HasSubstring(out[k], t)}

\* Every write with the text t comes before every write with the text u,
\* and there is exactly one write with the text t.
Before(out, t, u) ==
    /\ Cardinality(Places(out, t)) = 1
    /\ \A k \in Places(out, t) : \A l \in Places(out, u) : k < l

\* The order of the accesses and declarations of the case out of op.
PopOrder(op, out) ==
    /\ \A n \in 0..MaxElems : Binds(out, op.args, Pushed(op.args, NoOperands(op), n), n)
    /\ \A i \in 1..Len(op.args) :
          LET arg == op.args[i]
          IN  /\ Before(out, "arg_" \o arg.name \o " = ", "force_sysmis")
              /\ Before(out, "arg_" \o arg.name \o " = ",
                        "eval_" \o op.opname \o " (")
              /\ arg.idx # NoIdx =>
                    /\ Before(out, "size_t arg_" \o arg.idx \o " = op++->integer",
                              WindowText(arg))
                    /\ Before(out, "size_t arg_" \o arg.idx \o " = ",
                              "force_sysmis")
                    /\ Before(out, "size_t arg_" \o arg.idx \o " = ",
                              "eval_" \o op.opname \o " (")
                    /\ \A j \in 1..Len(op.args) :
                          IsPopped(op.args[j]) =>
                              Before(out, WindowText(arg), PopText(op.args[j]))
              /\ \A j \in (i + 1)..Len(op.args) :
                    IsPopped(arg) /\ IsPopped(op.args[j]) =>
                        Before(out, PopText(op.args[j]), PopText(arg))

\* C19: in the case of evaluate.inc of every implemented operation the
\* window of the array is taken first and the plain arguments are then
\* popped from the last declared to the first, so that operands pushed in
\* the order of declaration are bound each to the local of its argument;
\* the count of the array is declared before its window, and every local of
\* an argument before the guard and the call of the evaluator.
C19_PopOrder ==
    /\ pc = "parse_input" =>
          \A i \in 1..Len(Accepted) :
              ~Accepted[i].unimplemented /\ StackCase(Accepted[i]).ok =>
                  PopOrder(Accepted[i], StackCase(Accepted[i]).out)
    /\ CasesWritten

\* evaluate.inc was written for an operation with two popped arguments and
\* an array.
C19_Witness ==
    /\ pc = "exit"
    /\ out_file_name = "evaluate.inc"
    /\ exit_status = 0
    /\ \E i \in 1..Len(order) :
          /\ ~order[i].unimplemented
          /\ Len(order[i].args) = 3
          /\ IsPopped(order[i].args[1])
          /\ IsPopped(order[i].args[2])
          /\ StackOf(order[i].args[1]) = StackOf(order[i].args[2])
          /\ order[i].args[3].idx # NoIdx

RECURSIVE Uncommented(_)
\* The text t without its comments, each from // to the end of its line.
Uncommented(t) ==
    IF Len(t) = 0 THEN ""
    ELSE IF Len(t) >= 2 /\ SubSeq(t, 1, 2) = "//"
    THEN IF \E k \in 1..Len(t) : SubSeq(t, k, k) = "\n"
         THEN Uncommented(SubSeq(t, CHOOSE k \in 1..Len(t) :
                                       /\ SubSeq(t, k, k) = "\n"
                                       /\ \A j \in 1..(k - 1) :
                                             SubSeq(t, j, j) # "\n",
                                 Len(t)))
         ELSE ""
    ELSE SubSeq(t, 1, 1) \o Uncommented(SubSeq(t, 2, Len(t)))

RECURSIVE Scanned(_, _, _, _)
\* What the characters of t from the i-th on hold first at the nesting
\* depth: a terminator at depth 0, a closing bracket at depth 0 that is no
\* terminator, or neither.
Scanned(t, terminators, i, depth) ==
    IF i > Len(t) THEN [kind |-> "unterminated", at |-> i]
    ELSE IF SubSeq(t, i, i) \in terminators /\ depth = 0
    THEN [kind |-> "captured", at |-> i]
    ELSE IF SubSeq(t, i, i) \in {"(", "[", "{"}
    THEN Scanned(t, terminators, i + 1, depth + 1)
    ELSE IF SubSeq(t, i, i) \in {")", "]", "}"}
    THEN IF depth = 0 THEN [kind |-> "unbalanced", at |-> i]
         ELSE Scanned(t, terminators, i + 1, depth - 1)
    ELSE Scanned(t, terminators, i + 1, depth)

RECURSIVE Trimmed(_)
\* t without the newlines that surround it.
Trimmed(t) ==
    IF Len(t) > 0 /\ SubSeq(t, 1, 1) = "\n" THEN Trimmed(SubSeq(t, 2, Len(t)))
    ELSE IF Len(t) > 0 /\ SubSeq(t, Len(t), Len(t)) = "\n"
    THEN Trimmed(SubSeq(t, 1, Len(t) - 1))
    ELSE t

RECURSIVE Unblanked(_)
\* t without the blanks it starts with.
Unblanked(t) ==
    IF Len(t) > 0 /\ SubSeq(t, 1, 1) \in {" ", "\t"}
    THEN Unblanked(SubSeq(t, 2, Len(t)))
    ELSE t

\* The input that is left to read in the next state, without its comments.
Unread == line' \o "\n" \o Uncommented(in_file')

\* The step ends the program on the 'unbalanced' error.
Unbalanced ==
    /\ pc' = "exit"
    /\ exit_status' = 1
    /\ stderr' = ErrUnbalanced

\* The step of get_token captures, as a token of the type toktype_, the text
\* t up to its first terminator of depth 0, and goes on after it.
CapturesToken(toktype_, t, terminators, sc) ==
    /\ sc.kind = "captured" =>
          /\ pc' # "exit"
          /\ toktype' = toktype_
          /\ token' = Trimmed(SubSeq(t, 1, sc.at - 1))
          /\ Trimmed(Unread) = Trimmed(SubSeq(t, sc.at + 1, Len(t)))
    /\ sc.kind = "unbalanced" => Unbalanced

\* The step of Arg.parse captures, as the condition of the argument, the
\* text t up to its first terminator of depth 0, which is the next token.
CapturesCondition(t, terminators, sc) ==
    /\ sc.kind = "captured" =>
          /\ pc' # "exit"
          /\ condition' = token \o " " \o Trimmed(SubSeq(t, 1, sc.at - 1))
          /\ toktype' = "punct"
          /\ token' = SubSeq(t, sc.at, sc.at)
          /\ Trimmed(Unread) = Trimmed(SubSeq(t, sc.at + 1, Len(t)))
    /\ sc.kind = "unbalanced" => Unbalanced

\* The modes of accumulation, on the input that lookahead leaves: la.line
\* starts with the character that decides the mode.
Accumulates(la) ==
    /\ pc = "get_token" /\ SubSeq(la.line, 1, 1) = "=" =>
          CapturesToken("expression",
              Unblanked(SubSeq(la.line, 2, Len(la.line))) \o "\n"
                 \o Uncommented(la.in_file),
              {";"},
              Scanned(Unblanked(SubSeq(la.line, 2, Len(la.line))) \o "\n"
                         \o Uncommented(la.in_file),
                      {";"}, 1, 0))
    /\ pc = "get_token" /\ SubSeq(la.line, 1, 1) = "{" =>
          CapturesToken("block",
              SubSeq(la.line, 2, Len(la.line)) \o "\n"
                 \o Uncommented(la.in_file),
              {"}"},
              Scanned(SubSeq(la.line, 2, Len(la.line)) \o "\n"
                         \o Uncommented(la.in_file),
                      {"}"}, 1, 0))
    /\ pc = "arg_parse" /\ SubSeq(la.line, 1, 1) \notin {"[", ",", ")"} =>
          CapturesCondition(
              la.line \o "\n" \o Uncommented(la.in_file),
              {",", ")"},
              Scanned(la.line \o "\n" \o Uncommented(la.in_file),
                      {",", ")"}, 1, 0))

\* A step of the tokenizer that starts on a character of the input.
AccumulationStep ==
    /\ pc \in {"get_token", "arg_parse"}
    /\ line # NoLine
    /\ ~lookahead(line, in_file).eof
    => Accumulates(lookahead(line, in_file))

\* C20: in expression mode (terminator ';'), block mode (terminator '}') and
\* condition mode (terminators ',' and ')') the text captured is the input
\* without its comments, its lines joined by newlines and the newlines
\* around it trimmed, from the start of the mode up to the first terminator
\* at nesting depth 0, ( [ { raising the depth and ) ] } lowering it; in
\* expression and block mode the terminator is dropped and the tokenizer
\* goes on with the next character, in condition mode the terminator is the
\* next token; a closing bracket at depth 0 that is no terminator ends the
\* program on the 'unbalanced' error.
C20_BalancedAccumulation == [][AccumulationStep]_vars

\* An expression was captured that holds a terminator inside brackets.
C20_Witness ==
    /\ pc = "get_token"
    /\ toktype = "expression"
    /\ HasSubstring(token, ";")
    /\ HasSubstring(token, ")")

\* Whether op has exactly one of a block and no expression, an expression and
\* no block, or the unimplemented flag and neither.
OneBody(op) ==
    \/ op.block # None /\ op.expression = None /\ ~op.unimplemented
    \/ op.expression # None /\ op.block = None /\ ~op.unimplemented
    \/ op.unimplemented /\ op.block = None /\ op.expression = None

\* Whether the declaration d has the literal unimplemented for expression.
DeclaredUnimplemented(d) ==
    d.body.kind = "expression" /\ d.body.text = "unimplemented"

\* C21: every accepted operation has exactly one of a block body, an
\* expression body, or the unimplemented flag with neither body, and the
\* parser does not end on an internal error at a declaration whose
\* expression is the literal unimplemented, be it the first of the input or
\* not.
C21_BodyExclusivity ==
    /\ \A i \in 1..Len(Accepted) : OneBody(Accepted[i])
    /\ pc = "exit" /\ pos < Len(text) /\ DeclaredUnimplemented(text[pos + 1])
          => stderr # Traceback

\* The messages of die in the tokenizer.
LexErrors == {ErrEOF, ErrUnbalanced, ErrBadCharacter}

\* C22: tokenizing ends, for every input, at the end of the input or on the
\* fatal-error path, that is with a message of die and the exit status 1,
\* also when the input ends inside an expression, a block or an argument
\* list.
C22_Termination ==
    /\ pc \in {"get_line", "get_token", "arg_parse", "eof", "exit"}
    /\ pc = "eof" => toktype = "eof" /\ exit_status = Running
    /\ pc = "exit" => stderr \in LexErrors /\ exit_status = 1

\* The characters that are left to read.
Remaining(line_, in_file_) == Len(line_) + Len(in_file_)

\* A call of the tokenizer ends the run or leaves fewer characters to read.
Progress ==
    pc \in {"get_token", "arg_parse"} =>
        \/ pc' \in {"eof", "exit"}
        \/ /\ line # NoLine
           /\ line' # NoLine
           /\ Remaining(line', in_file') < Remaining(line, in_file)

\* Every call of the tokenizer ends the run or leaves fewer characters to
\* read, so that no run calls it for ever.
C22_Progress == [][Progress]_vars

\* The records parse.inc holds for the accepted input: what the run that
\* writes parse.inc writes between the header and the trailer.
Table == generate_parse_inc(order).out

\* The record of the table at the 0-based position n describes the
\* operation op.
RecordDescribes(n, op) ==
    /\ n + 1 \in 1..Len(Table)
    /\ StartsWith(Table[n + 1], "{\"" \o op.name \o "\", ")
    /\ HasSubstring(Table[n + 1],
                    ", OP_" \o op.returns \o ", " \o IntToStr(Len(op.args))
                    \o ", {" \o ArgCodes(op.args) \o "}, ")

\* The record of the table at the 0-based position n describes the type
\* named name.
RecordDescribesType(n, name) ==
    /\ n + 1 \in 1..Len(Table)
    /\ StartsWith(Table[n + 1], "{\"" \o name \o "\", ")
    /\ HasSubstring(Table[n + 1], ", 0, OP_" \o name \o ", 0, {}, 0, 0}")

\* C23: for every accepted input the position of each record of parse.inc,
\* from 0, is the value of its opcode in operations.h: a dummy record at 0,
\* the types that have an opcode at 1..A in the order of the enumeration,
\* then the operations, functions before operators.
C23_TableAlignment ==
    pc = "exit" /\ out_file_name = "operations.h" /\ pos = Len(text) =>
        /\ exit_status = 0
        /\ StartsWith(Table[1], "{\"\", \"\", ")
        /\ Len(Table) = 1 + Len(atoms) + Len(order)
        /\ \A k \in 1..Len(atoms) :
              /\ Opcode(atoms[k]) = k
              /\ RecordDescribesType(Opcode(atoms[k]), NonAuxonlyTypes(1)[k])
        /\ \A k \in 1..Len(order) :
              /\ Opcode(order[k].opname) = Len(atoms) + k
              /\ RecordDescribes(Opcode(order[k].opname), order[k])
        /\ order = funcs \o opers

\* The same for the inputs that have a function and an operator.
C23_TableAlignmentNonEmpty ==
    Len(funcs) > 0 /\ Len(opers) > 0 => C23_TableAlignment

\* The run has parsed the whole input and has ended.
EndedAfterParsing == pc = "exit" /\ pos = Len(text)

\* C24: for every input the parser accepts, with or without functions and
\* operators and whatever the types of the arguments and of the auxiliary
\* data are, each of the five emitters runs to its end without an internal
\* error, and the run ends with the trailer written and the exit status 0.
C24_EmittersNeverFail ==
    EndedAfterParsing /\ out_file_name \in OutputTypes =>
        /\ stderr # Traceback
        /\ exit_status = 0
        /\ Len(stdout) > 0
        /\ stdout[Len(stdout)] = Trailer

RECURSIVE Split(_, _)
\* The parts of s between the occurrences of sep; none for the empty text.
Split(s, sep) ==
    IF s = "" THEN <<>>
    ELSE IF find(s, sep) < 0 THEN <<s>>
    ELSE <<SubSeq(s, 1, find(s, sep))>>
         \o Split(SubSeq(s, find(s, sep) + Len(sep) + 1, Len(s)), sep)

\* The text between the parentheses of 'eval_<opname> (...)' in the write w
\* that ends with the text closing after them.
Parenthesized(w, op, closing) ==
    SubSeq(w, find(w, "eval_" \o op.opname \o " (") + Len(op.opname) + 8,
           Len(w) - Len(closing))

\* The writes evaluate.h holds for the accepted operation op.
Evaluator(op) == evaluate_h_op(op)

\* The parameters of the evaluator of op in evaluate.h; void stands for
\* none.
Parameters(op) ==
    LET heads == WritesWith(Evaluator(op).out, "eval_" \o op.opname \o " (")
        list == Split(Parenthesized(heads[1], op, ")\n"), ", ")
    IN  IF list = <<"void">> THEN <<>> ELSE list

\* The actual arguments of the call of the evaluator in the case of op in
\* evaluate.inc.
StackActuals(op) == Split(Parenthesized(PushOf(op), op, ");\n"), ", ")

\* The actual arguments of the call of the evaluator in the case of op in
\* optimize.inc.
FoldActuals(op) ==
    LET w == WritesWith(FoldCase(op).out, "eval_" \o op.opname \o " (")[1]
    IN  Split(Parenthesized(w, op,
                            IF HasSubstring(w, "return ") THEN "));\n"
                            ELSE ");\n"),
              ", ")

RECURSIVE Slots(_, _)
\* What the evaluator of an operation takes, in the order of declaration:
\* one value per scalar argument, a pointer and a count per array, then one
\* value per auxiliary datum.
Slots(args, aux) ==
    IF Len(args) > 0
    THEN (IF Head(args).idx = NoIdx
          THEN <<[kind |-> "scalar", name |-> Head(args).name, arg |-> Head(args)]>>
          ELSE <<[kind |-> "pointer", name |-> Head(args).name, arg |-> Head(args)],
                 [kind |-> "count", name |-> Head(args).idx, arg |-> Head(args)]>>)
         \o Slots(Tail(args), aux)
    ELSE IF Len(aux) > 0
    THEN <<[kind |-> "aux", name |-> Head(aux).NAME, arg |-> Head(aux)]>>
         \o Slots(args, Tail(aux))
    ELSE <<>>

\* The parameter p is that of the slot.
IsParameterOf(p, slot) ==
    IF slot.kind = "pointer"
    THEN EndsWith(p, " " \o slot.name \o "[]")
         \/ EndsWith(p, "*" \o slot.name \o "[]")
    ELSE IF slot.kind = "count" THEN p = "size_t " \o slot.name
    ELSE EndsWith(p, " " \o slot.name) \/ EndsWith(p, "*" \o slot.name)

\* The actual argument a is that of the slot; an auxiliary datum is passed
\* as the local by the name given, which is aux_<NAME> in evaluate.inc and
\* node in optimize.inc, or as the value of its auxiliary-only type.
IsActualOf(a, slot, by) ==
    IF slot.kind = "scalar"
    THEN a = "arg_" \o slot.name \/ a = Substituted(slot.arg)
    ELSE IF slot.kind = "pointer" THEN a = "arg_" \o slot.name
    ELSE IF slot.kind = "count"
    THEN a = "arg_" \o slot.name \/ a = "arg_" \o slot.name \o " / 2"
    ELSE IF TypeNamed(slot.arg.TYPE).role = "auxonly"
    THEN a = TypeNamed(slot.arg.TYPE).auxonly_value
    ELSE a = by

\* The list has one element per slot, each that of its slot.
Matches(list, slots, Is(_, _)) ==
    /\ Len(list) = Len(slots)
    /\ \A k \in 1..Len(slots) : Is(list[k], slots[k])

\* The parameters and the actual arguments of op are those of its slots.
SameArity(op, slots) ==
    Evaluator(op).ok =>
        /\ Matches(Parameters(op), slots, IsParameterOf)
        /\ StackCase(op).ok =>
              Matches(StackActuals(op), slots,
                      LAMBDA a, slot :
                          IsActualOf(a, slot, "aux_" \o slot.name))
        /\ op.optimizable /\ FoldCase(op).ok =>
              Matches(FoldActuals(op), slots,
                      LAMBDA a, slot : IsActualOf(a, slot, "node"))

\* C25: for every implemented operation the actual arguments of the call of
\* the evaluator in evaluate.inc, and in optimize.inc when the operation is
\* optimizable, are as many and in the same order as the parameters of the
\* evaluator in evaluate.h: one per scalar argument, a pointer and a count
\* per array argument, then one per auxiliary datum, in the order of
\* declaration.
C25_CallArity ==
    /\ pc = "parse_input" =>
          \A i \in 1..Len(Accepted) :
              ~Accepted[i].unimplemented =>
                  SameArity(Accepted[i],
                            Slots(Accepted[i].args, Accepted[i].aux))
    /\ pc = "exit" /\ out_file_name = "evaluate.h" /\ exit_status = 0 =>
          \A i \in 1..Len(order) :
              \A k \in 1..Len(Evaluator(order[i]).out) :
                  In(Evaluator(order[i]).out[k], stdout)

\* evaluate.h was written for an implemented and optimizable operation with
\* a scalar argument, an array and two auxiliary data, which has a case in
\* evaluate.inc and in optimize.inc.
C25_Witness ==
    /\ pc = "exit"
    /\ out_file_name = "evaluate.h"
    /\ exit_status = 0
    /\ \E i \in 1..Len(order) :
          /\ ~order[i].unimplemented
          /\ order[i].optimizable
          /\ Len(Parameters(order[i])) = 5
          /\ Len(order[i].aux) = 2
          /\ StackCase(order[i]).ok
          /\ FoldCase(order[i]).ok

\* No write of the case out computes or reads a guard.
Unguarded(out) == Len(WritesWith(out, "force_sysmis")) = 0

\* C26: an accepted operation that returns a string and does not absorb
\* missing values has no guard in evaluate.inc nor in optimize.inc: the
\* missing value of the string type is never substituted for its result.
C26_NoStringGuard ==
    pc = "parse_input" =>
        \A i \in 1..Len(Accepted) :
            Accepted[i].returns = "string" /\ ~Accepted[i].absorb_miss =>
                /\ sysmis_decl(Accepted[i], "op++->integer") = None
                /\ sysmis_decl(Accepted[i], "node->min_valid") = None
                /\ StackCase(Accepted[i]).ok =>
                      Unguarded(StackCase(Accepted[i]).out)
                /\ FoldCase(Accepted[i]).ok =>
                      Unguarded(FoldCase(Accepted[i]).out)

====
